---- MODULE Spec2Model ----
(***************************************************************************)
(* Model of the workspace migration tool: the MigrationMappings store and  *)
(* its JSON persistence (migration/utils.py), the entity migrators         *)
(* (migration/create/*.py) and the orchestrator main (migrate_workspace.py)*)
(***************************************************************************)
EXTENDS Integers, Sequences, FiniteSets, TLC

(***************************************************************************)
(* Bounds of the model.                                                    *)
(***************************************************************************)
\* number of source projects (codes P1, P2, ...)
NumProjects == 2
\* number of source entities of each type (per project for project-scoped types)
NumEnt == 1
\* number of injected remote failures / interrupts in one behaviour
MaxFaults == 1
\* largest max_retries and base_delay handed to retry_with_backoff
MaxRetries == 4
MaxDelay == 2
\* number of add_entity calls, and the largest count handed to one
MaxAdds == 3
MaxCount == 1
\* number of source attachment hashes, length of a text in tokens, length of an
\* attachments list
NumHashes == 2
MaxTokens == 3
MaxRefs == 1
\* source users handed to one call of migrate_users
MaxUsers == 2
\* results of one run, and the size of a bulk request (500 in the source)
MaxResults == 5
ChunkSize == 2
\* entities a source holds, and the page size of the extractors (100 in the source)
MaxServed == 9
PageLimit == 2
\* runs of the tool on one target
MaxProjectRuns == 2
\* source custom fields handed to one invocation of migrate_custom_fields
MaxFields == 2
\* uploads in one run of the tool
MaxUploads == 3
\* source runs of one project
MaxSourceRuns == 2
\* source suites of one project
NumSuites == 4

(***************************************************************************)
(* Python dicts.  A dict is a function from keys to values.  A key is a    *)
(* pair <<type, n>>: <<"int", n>> is the Python int n, <<"str", n>> is the *)
(* Python str that spells n (or, for hashes and codes, the n-th string).   *)
(* The int 1 and the str "1" are different keys of a Python dict.          *)
(***************************************************************************)
IntKey(n) == <<"int", n>>
StrKey(n) == <<"str", n>>
EmptyDict == << >>
Has(d, k) == k \in DOMAIN d
Get(d, k, default) == IF k \in DOMAIN d THEN d[k] ELSE default
Put(d, k, v) == [x \in (DOMAIN d) \cup {k} |-> IF x = k THEN v ELSE d[x]]
Update(d, e) == [x \in (DOMAIN d) \cup (DOMAIN e) |-> IF x \in DOMAIN e THEN e[x] ELSE d[x]]

ProjectCodes == {"P" \o ToString(i) : i \in 1..NumProjects}
ProjectSeq == [i \in 1..NumProjects |-> "P" \o ToString(i)]
Ids == 1..NumEnt

\* the values of --skip-projects that are tried: none, the first project, all
SkipChoices == {{}, {ProjectSeq[1]}, ProjectCodes}

(***************************************************************************)
(* MigrationMappings.  The fields of __init__ plus the attributes that the *)
(* migrators attach later (groups, user_uuid_mapping); attrs is the set of *)
(* the late attributes that exist (hasattr).  Workspace hash 0 is None.    *)
(***************************************************************************)
PerProjectFields == {"suites", "cases", "runs", "milestones", "configurations",
                     "configuration_groups", "environments", "shared_steps",
                     "attachments", "plans"}
FlatFields == {"projects", "shared_parameters", "custom_fields", "users"}
NumericFields == {"users", "custom_fields", "suites", "cases", "runs", "milestones",
                  "configurations", "configuration_groups", "environments", "plans"}

NewMappings ==
    [projects |-> EmptyDict, suites |-> EmptyDict, cases |-> EmptyDict,
     runs |-> EmptyDict, milestones |-> EmptyDict, configurations |-> EmptyDict,
     configuration_groups |-> EmptyDict, environments |-> EmptyDict,
     shared_steps |-> EmptyDict, shared_parameters |-> EmptyDict,
     custom_fields |-> EmptyDict, users |-> EmptyDict, attachments |-> EmptyDict,
     plans |-> EmptyDict, target_workspace_hash |-> 0,
     groups |-> EmptyDict, user_uuid_mapping |-> EmptyDict, attrs |-> {}]

(***************************************************************************)
(* json.dump / json.load.  json.dump writes every dict key as a string, so *)
(* an int key n and a str key "n" of one dict become two members with the  *)
(* same name; json.load keeps the last member.  Dicts keep insertion order *)
(* and the only way a dict gets keys of both types is load (str keys)      *)
(* followed by a migrator's insertions (int keys), so the int key is last. *)
(***************************************************************************)
JsonKey(k) == StrKey(k[2])

JsonDict(d) ==
    [k \in {JsonKey(x) : x \in DOMAIN d} |->
        IF IntKey(k[2]) \in DOMAIN d THEN d[IntKey(k[2])] ELSE d[k]]

JsonNested(d) == [p \in DOMAIN d |-> JsonDict(d[p])]

\* the document save_to_file writes: fourteen members, nothing else
mappings_dict(m) ==
    [projects |-> m.projects,
     suites |-> JsonNested(m.suites),
     cases |-> JsonNested(m.cases),
     runs |-> JsonNested(m.runs),
     milestones |-> JsonNested(m.milestones),
     configurations |-> JsonNested(m.configurations),
     configuration_groups |-> JsonNested(m.configuration_groups),
     environments |-> JsonNested(m.environments),
     shared_steps |-> JsonNested(m.shared_steps),
     shared_parameters |-> JsonDict(m.shared_parameters),
     custom_fields |-> JsonDict(m.custom_fields),
     users |-> JsonDict(m.users),
     attachments |-> JsonNested(m.attachments),
     plans |-> JsonNested(m.plans)]

\* the mappings file: absent, a complete JSON document, or a document cut short
NoFile == [kind |-> "absent", doc |-> mappings_dict(NewMappings)]
JsonFile(doc) == [kind |-> "json", doc |-> doc]
PartialFile == [kind |-> "partial", doc |-> mappings_dict(NewMappings)]

save_to_file(m) == JsonFile(mappings_dict(m))

\* load_from_file on a complete document: the fourteen maps are taken as parsed
\* (string keys), target_workspace_hash is read from a member that save never
\* writes, and the late attributes of the object are left as they are
load_document(m, doc) ==
    [m EXCEPT !.projects = doc.projects,
              !.suites = doc.suites,
              !.cases = doc.cases,
              !.runs = doc.runs,
              !.milestones = doc.milestones,
              !.configurations = doc.configurations,
              !.configuration_groups = doc.configuration_groups,
              !.environments = doc.environments,
              !.shared_steps = doc.shared_steps,
              !.shared_parameters = doc.shared_parameters,
              !.custom_fields = doc.custom_fields,
              !.users = doc.users,
              !.attachments = doc.attachments,
              !.plans = doc.plans,
              !.target_workspace_hash = 0]

\* a load that takes a missing file for an empty document
load_missing_as_empty(m, f) == load_document(m, f.doc)

\* FileNotFoundError is caught and passed over: the object stays as it is
load_from_file(m, f) ==
    IF f.kind = "absent" THEN m ELSE load_document(m, f.doc)

(***************************************************************************)
(* The two workspaces.  The source is fixed: NumProjects projects, and Ids *)
(* as the ids of the users, custom fields, shared parameters, groups and   *)
(* attachment hashes of the workspace and of the milestones, configuration *)
(* groups (group g holds configuration g), environments, shared steps,     *)
(* suites, cases (case c lies in suite c), plans (plan n lists case n) and *)
(* runs of every project.  Titles, e-mails and names are distinct, so the  *)
(* source id stands for the natural key.  Runs are automated (user_id 0)   *)
(* and cases carry author_uuid.                                            *)
(* The target is the set of entities created so far, by type; an entity    *)
(* remembers its project, the source entity it was created for and the     *)
(* run of the tool (phase) whose create call made it.  The target numbers  *)
(* the entities of a type consecutively.                                   *)
(***************************************************************************)
EntityTypes == {"projects", "users", "groups", "custom_fields", "shared_parameters",
                "attachments", "milestones", "configuration_groups", "configurations",
                "environments", "shared_steps", "suites", "cases", "plans", "runs"}

\* the target before the first run: one user, whose e-mail is that of source user 1
PreExistingUser == [p |-> "-", src |-> 1, id |-> 1, phase |-> "pre"]
InitTarget == [ty \in EntityTypes |-> IF ty = "users" THEN {PreExistingUser} ELSE {}]

\* the elements of a finite set of numbers in ascending order
AscSeq(S) == [i \in 1..Cardinality(S) |-> CHOOSE x \in S : Cardinality({y \in S : y <= x}) = i]

\* a create call is <<type, source id>>; the target id that the i-th call of calls gets
CallId(t, calls, i) ==
    Cardinality(t[calls[i][1]]) + Cardinality({j \in 1..i : calls[j][1] = calls[i][1]})

\* the calls that are carried out: all of them, or those before the failing one
Done(calls, fail) == {i \in 1..Len(calls) : fail = 0 \/ i < fail}

\* the target after the calls in done have been carried out for project p
ApplyCalls(t, p, ph, calls, done) ==
    [ty \in DOMAIN t |->
        t[ty] \cup {[p |-> p, src |-> calls[i][2], id |-> CallId(t, calls, i), phase |-> ph] :
                        i \in {j \in done : calls[j][1] = ty}}]

\* the source->target pairs of the calls of type ty in done, with keys of type kt ("int" or "str")
Pairs(t, calls, done, ty, kt) ==
    LET is == {i \in done : calls[i][1] = ty}
    IN [k \in {<<kt, calls[i][2]>> : i \in is} |->
            CallId(t, calls, CHOOSE i \in is : calls[i][2] = k[2])]

\* mappings.<field>[project].update(local), creating the inner dict when missing
UpdateProject(m, field, p, local) ==
    [m EXCEPT ![field] = Put(m[field], p, Update(Get(m[field], p, EmptyDict), local))]

\* a migrator's outcome: the store, the target, the mapping it returns, and
\* whether it raised instead of returning
\* (ok: the failure asked for exists, i.e. fail names one of the calls)
Outcome(m, t, ret, raised, ok) ==
    [m |-> m, t |-> t, ret |-> ret, raised |-> raised, ok |-> ok]

\* one create call per id of S, in ascending order
CallsFor(ty, S) == [i \in 1..Cardinality(S) |-> <<ty, AscSeq(S)[i]>>]

\* calls without the fail-th one (a failure that the migrator swallows)
Without(calls, fail) ==
    IF fail = 0 THEN calls
    ELSE [i \in 1..(Len(calls) - 1) |-> IF i < fail THEN calls[i] ELSE calls[i + 1]]

\* the target entity that already carries the natural key of source entity i
Exists(t, ty, i) == \E e \in t[ty] : e.src = i
ExistingId(t, ty, i) ==
    CHOOSE n \in {e.id : e \in {x \in t[ty] : x.src = i}} :
        \A e \in {x \in t[ty] : x.src = i} : e.id <= n

\* users.default of the configuration
default_user_id == 1

(***************************************************************************)
(* Workspace-level migrators.  fail = 0: every remote call succeeds;       *)
(* fail = k > 0: the k-th remote call that can fail does.                  *)
(***************************************************************************)
\* create_project per source project: a project whose code exists in the target
\* is mapped, every other one is created; a failed create is re-raised
migrate_projects(m, t, ph, fail) ==
    LET calls == CallsFor("projects", {i \in 1..NumProjects : ~Exists(t, "projects", i)})
        done == Done(calls, fail)
        reached == {i \in 1..NumProjects : fail = 0 \/ fail > Len(calls) \/ i < calls[fail][2]}
        m2 == [m EXCEPT !.projects =
                  Update(m.projects, [c \in {ProjectSeq[i] : i \in reached} |-> c])]
    IN Outcome(m2, ApplyCalls(t, "-", ph, calls, done), ProjectSeq,
               fail > 0, fail <= Len(calls))

\* users.migrate, users.create and SCIM are configured: users are matched by
\* e-mail or created; only the extraction of the source users can raise
migrate_users(m, t, ph, fail) ==
    LET calls == CallsFor("users", {i \in Ids : ~Exists(t, "users", i)})
        done == Done(calls, 0)
        t2 == ApplyCalls(t, "-", ph, calls, done)
        user_mapping == [k \in {IntKey(i) : i \in Ids} |-> ExistingId(t2, "users", k[2])]
        user_uuid_mapping == [k \in {StrKey(i) : i \in Ids} |-> ExistingId(t2, "users", k[2])]
    IN IF fail > 0
       THEN Outcome(m, t, EmptyDict, TRUE, fail = 1)
       ELSE Outcome([m EXCEPT !.users = user_mapping,
                              !.user_uuid_mapping = user_uuid_mapping,
                              !.attrs = @ \cup {"user_uuid_mapping"}],
                    t2, user_mapping, FALSE, TRUE)

\* a fallback that maps to another user than users.default
fallback_user_mapping_other == [k \in {IntKey(i) : i \in Ids} |-> default_user_id + 1]

\* the fallback of main when migrate_users raised: every source user -> default
fallback_user_mapping == [k \in {IntKey(i) : i \in Ids} |-> default_user_id]

\* groups.create and SCIM are configured: groups are matched by name or created;
\* only the extraction of the source groups can raise
migrate_groups(m, t, ph, fail) ==
    LET calls == CallsFor("groups", {i \in Ids : ~Exists(t, "groups", i)})
        t2 == ApplyCalls(t, "-", ph, calls, Done(calls, 0))
        group_mapping == [k \in {StrKey(i) : i \in Ids} |-> ExistingId(t2, "groups", k[2])]
    IN IF fail > 0
       THEN Outcome(m, t, EmptyDict, TRUE, fail = 1)
       ELSE Outcome([m EXCEPT !.groups = Update(m.groups, group_mapping),
                              !.attrs = @ \cup {"groups"}],
                    t2, group_mapping, FALSE, TRUE)

\* a field whose title exists in the target is mapped to it, every other one is
\* created; create_custom_field writes into mappings.custom_fields as it goes and
\* a failed create is raised to main
migrate_custom_fields(m, t, ph, fail) ==
    LET calls == CallsFor("custom_fields", {i \in Ids : ~Exists(t, "custom_fields", i)})
        done == Done(calls, fail)
        t2 == ApplyCalls(t, "-", ph, calls, done)
        reached == {i \in Ids : fail = 0 \/ fail > Len(calls) \/ i < calls[fail][2]}
        field_mapping == [k \in {IntKey(i) : i \in reached} |->
                             ExistingId(t2, "custom_fields", k[2])]
    IN Outcome([m EXCEPT !.custom_fields = Update(m.custom_fields, field_mapping)],
               t2, IF fail > 0 THEN EmptyDict ELSE field_mapping,
               fail > 0, fail <= Len(calls))

\* a parameter already in mappings.shared_parameters is copied, one whose title
\* exists in the target is mapped to it, every other one is posted; a failed post
\* is logged and the parameter left unmapped
migrate_shared_parameters(m, t, ph, fail) ==
    LET mapped == {i \in Ids : Has(m.shared_parameters, StrKey(i))}
        found == {i \in Ids \ mapped : Exists(t, "shared_parameters", i)}
        all == CallsFor("shared_parameters", Ids \ (mapped \cup found))
        calls == Without(all, fail)
        done == Done(calls, 0)
        t2 == ApplyCalls(t, "-", ph, calls, done)
        shared_parameter_mapping ==
            [k \in {StrKey(i) : i \in mapped \cup found \cup {calls[j][2] : j \in done}} |->
                IF k[2] \in mapped THEN m.shared_parameters[k]
                ELSE ExistingId(t2, "shared_parameters", k[2])]
    IN Outcome([m EXCEPT !.shared_parameters = Update(@, shared_parameter_mapping)],
               t2, shared_parameter_mapping, FALSE, fail <= Len(all))

\* the target workspace hash that an upload URL carries
TargetWorkspaceHash == 1

\* every project references the hashes Ids.  A hash found in any project's map is
\* copied, every other one is uploaded once (a failed upload is logged and the hash
\* left unmapped); the first upload reveals the target workspace hash; every
\* project's map then gets every mapped hash
migrate_attachments_workspace(m, t, ph, projects, fail) ==
    LET known(h) == \E pc \in DOMAIN m.attachments : Has(m.attachments[pc], StrKey(h))
        knownVal(h) == m.attachments[CHOOSE pc \in DOMAIN m.attachments :
                                        Has(m.attachments[pc], StrKey(h))][StrKey(h)]
        all == CallsFor("attachments", {h \in Ids : ~known(h)})
        calls == Without(all, fail)
        done == Done(calls, 0)
        t2 == ApplyCalls(t, projects[1], ph, calls, done)
        global_attachment_mapping ==
            [k \in {StrKey(h) : h \in {x \in Ids : known(x)} \cup {calls[j][2] : j \in done}} |->
                IF known(k[2]) THEN knownVal(k[2])
                ELSE CallId(t, calls, CHOOSE j \in done : calls[j][2] = k[2])]
        pcs == {projects[i] : i \in 1..Len(projects)}
        attachments == [pc \in (DOMAIN m.attachments) \cup pcs |->
                           IF pc \in pcs
                           THEN Update(Get(m.attachments, pc, EmptyDict), global_attachment_mapping)
                           ELSE m.attachments[pc]]
        hash == IF m.target_workspace_hash = 0 /\ done # {}
                THEN TargetWorkspaceHash ELSE m.target_workspace_hash
    IN Outcome([m EXCEPT !.attachments = attachments, !.target_workspace_hash = hash],
               t2, attachments, FALSE, fail <= Len(all))

(***************************************************************************)
(* Project-scoped migrators for source project p.                          *)
(***************************************************************************)
\* whether mappings.<field>[p] holds the key k, as `p in d and k in d[p]` tests it
Mapped(m, field, p, k) == Has(m[field], p) /\ Has(m[field][p], k)

\* the pairs a migrator copies from the store for the ids in S
Copied(m, field, p, S) == [k \in {IntKey(i) : i \in S} |-> m[field][p][k]]

\* every milestone is created; the pairs reach the store when the loop has ended
migrate_milestones(m, t, p, ph, fail) ==
    LET calls == CallsFor("milestones", Ids)
        done == Done(calls, fail)
        milestone_mapping == Pairs(t, calls, done, "milestones", "int")
        t2 == ApplyCalls(t, p, ph, calls, done)
    IN IF fail > 0
       THEN Outcome(m, t2, EmptyDict, TRUE, fail <= Len(calls))
       ELSE Outcome(UpdateProject(m, "milestones", p, milestone_mapping),
                    t2, milestone_mapping, FALSE, TRUE)

\* the create calls of migrate_configurations from group g on: every group is
\* created, then its configuration unless mappings.configurations[p] holds its id
RECURSIVE ConfigCalls(_, _, _)
ConfigCalls(m, p, g) ==
    IF g > NumEnt THEN << >>
    ELSE <<<<"configuration_groups", g>>>>
         \o (IF Mapped(m, "configurations", p, IntKey(g)) THEN << >>
             ELSE <<<<"configurations", g>>>>)
         \o ConfigCalls(m, p, g + 1)

migrate_configurations(m, t, p, ph, fail) ==
    LET calls == ConfigCalls(m, p, 1)
        done == Done(calls, fail)
        group_mapping == Pairs(t, calls, done, "configuration_groups", "int")
        skipped == {g \in Ids : IntKey(g) \in DOMAIN group_mapping
                                /\ Mapped(m, "configurations", p, IntKey(g))}
        config_mapping == Update(Copied(m, "configurations", p, skipped),
                                 Pairs(t, calls, done, "configurations", "int"))
        t2 == ApplyCalls(t, p, ph, calls, done)
    IN IF fail > 0
       THEN Outcome(m, t2, EmptyDict, TRUE, fail <= Len(calls))
       ELSE Outcome(UpdateProject(UpdateProject(m, "configuration_groups", p, group_mapping),
                                  "configurations", p, config_mapping),
                    t2, config_mapping, FALSE, TRUE)

\* an environment whose id is in mappings.environments[p] is copied, every other
\* one is created
migrate_environments(m, t, p, ph, fail) ==
    LET skipped == {i \in Ids : Mapped(m, "environments", p, IntKey(i))}
        calls == CallsFor("environments", Ids \ skipped)
        done == Done(calls, fail)
        environment_mapping == Update(Copied(m, "environments", p, skipped),
                                      Pairs(t, calls, done, "environments", "int"))
        t2 == ApplyCalls(t, p, ph, calls, done)
    IN IF fail > 0
       THEN Outcome(m, t2, EmptyDict, TRUE, fail <= Len(calls))
       ELSE Outcome(UpdateProject(m, "environments", p, environment_mapping),
                    t2, environment_mapping, FALSE, TRUE)

\* every shared step is created; the keys are hashes (strings)
migrate_shared_steps(m, t, p, ph, fail) ==
    LET calls == CallsFor("shared_steps", Ids)
        done == Done(calls, fail)
        shared_step_mapping == Pairs(t, calls, done, "shared_steps", "str")
        t2 == ApplyCalls(t, p, ph, calls, done)
    IN IF fail > 0
       THEN Outcome(m, t2, EmptyDict, TRUE, fail <= Len(calls))
       ELSE Outcome(UpdateProject(m, "shared_steps", p, shared_step_mapping),
                    t2, shared_step_mapping, FALSE, TRUE)

\* every suite is created (all are roots); a failed create is logged inside
\* migrate_suite_recursive and the suite left unmapped
migrate_suites(m, t, p, ph, fail) ==
    LET all == CallsFor("suites", Ids)
        calls == Without(all, fail)
        done == Done(calls, 0)
        suite_mapping == Pairs(t, calls, done, "suites", "int")
    IN Outcome(UpdateProject(m, "suites", p, suite_mapping),
               ApplyCalls(t, p, ph, calls, done), suite_mapping, FALSE, fail <= Len(all))

\* every case is created, by one bulk call for the whole batch
migrate_cases(m, t, p, ph, fail) ==
    LET calls == CallsFor("cases", Ids)
        done == IF fail = 0 THEN 1..Len(calls) ELSE {}
        case_mapping == Pairs(t, calls, done, "cases", "int")
    IN IF fail > 0
       THEN Outcome(m, t, EmptyDict, TRUE, fail = 1)
       ELSE Outcome(UpdateProject(m, "cases", p, case_mapping),
                    ApplyCalls(t, p, ph, calls, done), case_mapping, FALSE, TRUE)

\* a plan whose id is in mappings.plans[p] is copied; a plan none of whose cases
\* is in case_mapping is skipped; every other one is created
migrate_plans(m, t, p, ph, case_mapping, fail) ==
    LET skipped == {i \in Ids : Mapped(m, "plans", p, IntKey(i))}
        calls == CallsFor("plans", {i \in Ids \ skipped : Has(case_mapping, IntKey(i))})
        done == Done(calls, fail)
        plan_mapping == Update(Copied(m, "plans", p, skipped),
                               Pairs(t, calls, done, "plans", "int"))
        t2 == ApplyCalls(t, p, ph, calls, done)
    IN IF fail > 0
       THEN Outcome(m, t2, EmptyDict, TRUE, fail <= Len(calls))
       ELSE Outcome(UpdateProject(m, "plans", p, plan_mapping),
                    t2, plan_mapping, FALSE, TRUE)

\* every run is created; the pairs reach the store when the loop has ended
migrate_runs(m, t, p, ph, fail) ==
    LET calls == CallsFor("runs", Ids)
        done == Done(calls, fail)
        run_mapping == Pairs(t, calls, done, "runs", "int")
        t2 == ApplyCalls(t, p, ph, calls, done)
    IN IF fail > 0
       THEN Outcome(m, t2, EmptyDict, TRUE, fail <= Len(calls))
       ELSE Outcome(UpdateProject(m, "runs", p, run_mapping),
                    t2, run_mapping, FALSE, TRUE)

\* main passes nine positional arguments to migrate_results, which takes eight:
\* the call raises TypeError before the body runs
migrate_results(m, t, p, ph) == Outcome(m, t, EmptyDict, TRUE, TRUE)

(***************************************************************************)
(* The orchestrator: main of migrate_workspace.py.                         *)
(*   pc          the step main is about to run, or how the process ended   *)
(*   pidx        index of the current project in loc.projects              *)
(*   phase       "first": the first run of the tool; "resumed": a second   *)
(*               run, started with --resume on what the first one left     *)
(*   cfg         configuration: users.migrate, skip_projects, --resume     *)
(*   mappings    the MigrationMappings object of the running process       *)
(*   target      the target workspace                                      *)
(*   file        the mappings file on disk                                 *)
(*   loc         the local variables of main                               *)
(*   exit_status exit status of the process (-1 while it runs)             *)
(*   faults      number of failures injected so far                        *)
(* History variables, read by the properties only:                         *)
(*   log         the invocations, saves and loads of the running process   *)
(*   saved       the store handed to the last save_to_file that completed  *)
(*   loaded      the last load_from_file: the store that had been saved    *)
(*               (from) and the store the load produced (got)              *)
(*   produced    what each migrator invocation of the running process      *)
(*               returned ({} when it raised)                              *)
(*   recv        the mappings migrate_cases received, per project          *)
(***************************************************************************)
VARIABLES pc, pidx, phase, cfg, mappings, target, file, loc, exit_status, faults,
          log, saved, loaded, produced, recv

mainvars == <<pc, pidx, phase, cfg, mappings, target, file, loc, exit_status, faults,
              log, saved, loaded, produced, recv>>

(***************************************************************************)
(* retry_with_backoff (migration/utils.py), one call of the wrapper:       *)
(*   max_retries, base_delay   its parameters                              *)
(*   func            the __name__ of the wrapped function, as its words    *)
(*   attempt         the loop variable                                     *)
(*   last_exception  the local of that name                                *)
(*   ret             how the wrapper ended: pending, returned, raised      *)
(* History variables: calls, what each call of func did; sleeps, the       *)
(* argument of each time.sleep.                                            *)
(***************************************************************************)
VARIABLES max_retries, base_delay, func, attempt, last_exception, ret, calls, sleeps

retryvars == <<max_retries, base_delay, func, attempt, last_exception, ret, calls, sleeps>>

(***************************************************************************)
(* MigrationStats (migration/utils.py): the two counter dicts, and the     *)
(* add_entity calls made so far (history).                                 *)
(***************************************************************************)
VARIABLES entities_processed, entities_created, added

statsvars == <<entities_processed, entities_created, added>>

(***************************************************************************)
(* transform_case_data / transform_result_data on one source entity:       *)
(*   entity                 the source case or result                      *)
(*   attachment_mapping     mappings.attachments of its project            *)
(*   target_workspace_hash  mappings.target_workspace_hash (0 is None)     *)
(*   transformed            the data built for the target (or NotYet)      *)
(***************************************************************************)
VARIABLES entity, attachment_mapping, target_workspace_hash, transformed

transformvars == <<entity, attachment_mapping, target_workspace_hash, transformed>>


(***************************************************************************)
(* retry_with_backoff: the data it works on.                               *)
(***************************************************************************)
\* the defaults of the signature; every call site of the repository uses them
DefaultMaxRetries == 3
DefaultBaseDelay == 1

None == "None"
\* what the wrapped function may return
Values == {"response", None}

\* func.__name__ word by word: attachments_api.get_attachment, cases_api.get_case
FuncNames == {<<"get", "attachment">>, <<"get", "case">>}

\* e.body: absent, a JSON document, or text that json.loads rejects
NoBody == [json |-> FALSE, text |-> << >>]
AttachmentBody == [json |-> TRUE, text |-> <<"Attachment", "not", "found">>]
Bodies == {NoBody, AttachmentBody,
           [json |-> FALSE, text |-> <<"no", "such", "attachment">>],
           [json |-> TRUE, text |-> <<"Case", "not", "found">>]}
Statuses == {400, 404, 429, 500}
\* the bodies tried with a status
BodiesOf(status) == IF status = 404 THEN Bodies ELSE {NoBody, AttachmentBody}

\* the exception objects: id is the number of the call that raised it
ApiException(status, body, id) ==
    [kind |-> "api", status |-> status, body |-> body, id |-> id, value |-> None]
OtherException(id) ==
    [kind |-> "other", status |-> 0, body |-> NoBody, id |-> id, value |-> None]
NoException == [kind |-> "none", status |-> 0, body |-> NoBody, id |-> 0, value |-> None]
\* a call of func that returned v
Return(v) == [kind |-> "return", status |-> 0, body |-> NoBody, id |-> 0, value |-> v]

\* how the wrapper stands: still in the loop, returned v, raised e
Pending == [kind |-> "pending", value |-> None, exc |-> NoException]

\* a wrapper that takes a None result for a failure
ReturnedTruthy(v) ==
    IF v = None THEN Pending ELSE [Pending EXCEPT !.kind = "returned", !.value = v]

\* line 207
Returned(v) == [kind |-> "returned", value |-> v, exc |-> NoException]
Propagated(e) == [kind |-> "raised", value |-> None, exc |-> e]

\* str.lower() of a word
Lower(w) ==
    CASE w = "Attachment" -> "attachment"
      [] w = "Case" -> "case"
      [] OTHER -> w

\* 'attachment' in text.lower()
Mentions(words) == \E i \in 1..Len(words) : Lower(words[i]) = "attachment"

\* a wrapper that retries every status from 400 up
RetryableStatusAny4xx(status) == status >= 400

\* a wrapper that does not retry a rate limit
RetryableStatus5xxOnly(status) == status >= 500

\* line 210
RetryableStatus(status) == status = 429 \/ status >= 500

\* a wrapper that gives up one attempt early
MoreAttemptsOneLess(a, m) == a < m - 2

\* lines 211 and 246
MoreAttempts(a, m) == a < m - 1

\* a backoff that starts at twice the base delay
DelayDoubled(b, a) == b * 2^(a + 1)

\* lines 212 and 247
delay(b, a) == b * 2^a

\* a wrapper that suppresses an attachment error of any status
IsAttachmentErrorAnyStatus(e, name) ==
    \/ e.body # NoBody /\ Mentions(e.body.text)
    \/ Mentions(name)

\* lines 215-230: json.loads(e.body) and str(error_data), or str(e.body) when the
\* body is not JSON, are searched for 'attachment'; then func.__name__
is_attachment_error(e, name) ==
    /\ e.status = 404
    /\ \/ e.body # NoBody /\ Mentions(e.body.text)
       \/ Mentions(name)

\* no call of the wrapper is in progress
RetryIdle ==
    /\ max_retries = DefaultMaxRetries
    /\ base_delay = DefaultBaseDelay
    /\ func = << >>
    /\ attempt = 0
    /\ last_exception = NoException
    /\ ret = [Pending EXCEPT !.kind = "idle"]
    /\ calls = << >>
    /\ sleeps = << >>

(***************************************************************************)
(* MigrationStats.                                                         *)
(***************************************************************************)
StatTypes == {"cases", "suites"}

\* a recorder that keeps the counts of the last call only
add_entity_overwrite(processed, created, t, sc, tc) ==
    [processed |-> Put(processed, t, sc), created |-> Put(created, t, tc)]

\* add_entity(entity_type, source_count, target_count) on the two dicts
add_entity(processed, created, t, sc, tc) ==
    IF Has(processed, t)
    THEN [processed |-> Put(processed, t, processed[t] + sc),
          created |-> Put(created, t, created[t] + tc)]
    ELSE [processed |-> Put(processed, t, sc), created |-> Put(created, t, tc)]

\* MigrationStats.__init__
StatsIdle ==
    /\ entities_processed = EmptyDict
    /\ entities_created = EmptyDict
    /\ added = << >>

(***************************************************************************)
(* Attachment hashes in cases and results.  A hash is <<n, c>>: the n-th   *)
(* hex string, written in lower case or with upper-case letters.  A text   *)
(* is a sequence of tokens: an attachment URL                              *)
(* https://host/public/team/{ws}/attachment/{hash}/file, a closing         *)
(* parenthesis, or any other run of characters.                            *)
(***************************************************************************)
SourceHashes == {<<n, c>> : n \in 1..NumHashes, c \in {"lower", "upper"}}
NoHash == <<0, "lower">>
\* str.lower() of a hash
LowerHash(h) == <<h[1], "lower">>
\* the hash of the source workspace in the URLs of the source texts
SourceWorkspaceHash == 2

Url(ws, h) == [kind |-> "url", ws |-> ws, hash |-> h]
CloseParen == [kind |-> "close", ws |-> 0, hash |-> NoHash]
Chars == [kind |-> "char", ws |-> 0, hash |-> NoHash]
Tokens == {Url(SourceWorkspaceHash, h) : h \in SourceHashes} \cup {CloseParen, Chars}
Texts == UNION {[1..n -> Tokens] : n \in 0..MaxTokens}

\* mappings.attachments[project] as migrate_attachments_workspace leaves it: the
\* extraction lower-cases every hash, so the keys are lower case; the value is the
\* hash the upload returned, or the same hash when the target already had the file
StoredMaps ==
    UNION {{m \in [{<<n, "lower">> : n \in S} -> {<<n, "lower">> : n \in 1..(2 * NumHashes)}] :
               \A k \in DOMAIN m : m[k] \in {k, <<k[1] + NumHashes, "lower">>}} :
           S \in SUBSET (1..NumHashes)}

\* an item of an attachments list: a str, a dict with 'hash', a dict with 'url'
Item(form, h) == [form |-> form, hash |-> h]
\* the markdown image links ![f](url) of the hashes of refs
Markdown(refs) ==
    [i \in 1..(3 * Len(refs)) |->
        CASE i % 3 = 1 -> Chars
          [] i % 3 = 2 -> Url(SourceWorkspaceHash, refs[(i + 1) \div 3])
          [] OTHER -> CloseParen]

SourceEntity(kind, attachments, step_attachments, text) ==
    [kind |-> kind, attachments |-> attachments, step_attachments |-> step_attachments,
     text |-> text]
RefLists == UNION {[1..n -> SourceHashes] : n \in 0..MaxRefs}
\* the source entities tried: a case with a free text; a case or a result that
\* refers to attachments in one place
SourceEntities ==
    {SourceEntity("case", << >>, << >>, t) : t \in Texts}
    \cup {SourceEntity(k, [i \in DOMAIN r |-> Item(f, r[i])], << >>, << >>) :
              k \in {"case", "result"}, f \in {"str", "hash", "url"}, r \in RefLists}
    \cup {SourceEntity("case", << >>, [i \in DOMAIN r |-> Item("str", r[i])], << >>) :
              r \in RefLists}
    \cup {SourceEntity(k, << >>, << >>, Markdown(r)) : k \in {"case", "result"}, r \in RefLists}

NotYet == [attachments |-> << >>, step_attachments |-> << >>, text |-> << >>, done |-> FALSE]

\* nothing is being transformed
TransformIdle ==
    /\ entity = SourceEntity("none", << >>, << >>, << >>)
    /\ attachment_mapping = EmptyDict
    /\ target_workspace_hash = 0
    /\ transformed = NotYet

\* the project-scoped steps of main, in the order of the loop body
ProjectSteps == <<"milestones", "configurations", "environments", "shared_steps",
                  "suites", "cases", "plans", "runs", "results">>
WorkspaceSteps == <<"projects", "users", "groups", "custom_fields",
                    "shared_parameters", "attachments">>
StepNames == {ProjectSteps[i] : i \in 1..Len(ProjectSteps)}
                 \cup {WorkspaceSteps[i] : i \in 1..Len(WorkspaceSteps)}
Ended == {"done", "exit", "stopped", "killed"}

Index(seq, x) == CHOOSE i \in 1..Len(seq) : seq[i] = x

\* the locals of main before any assignment
InitLoc ==
    [projects |-> << >>, user_mapping |-> EmptyDict, custom_field_mapping |-> EmptyDict,
     shared_parameter_mapping |-> EmptyDict, milestone_mapping |-> EmptyDict,
     config_mapping |-> EmptyDict, environment_mapping |-> EmptyDict,
     shared_step_mapping |-> EmptyDict, suite_mapping |-> EmptyDict,
     case_mapping |-> EmptyDict, plan_mapping |-> EmptyDict, run_mapping |-> EmptyDict]

\* the local each project step assigns
LocalOf(step) ==
    CASE step = "milestones" -> "milestone_mapping"
      [] step = "configurations" -> "config_mapping"
      [] step = "environments" -> "environment_mapping"
      [] step = "shared_steps" -> "shared_step_mapping"
      [] step = "suites" -> "suite_mapping"
      [] step = "cases" -> "case_mapping"
      [] step = "plans" -> "plan_mapping"
      [] step = "runs" -> "run_mapping"
      [] OTHER -> "none"

NoLoad == [done |-> FALSE, from |-> NewMappings, got |-> NewMappings]

\* log entries
Invoke(step, p) == <<"invoke", step, p>>
Save == <<"save", "", "">>
Load == <<"load", "", "">>
Fallback == <<"fallback_users", "", "">>
Raised(step, p) == <<"raised", step, p>>
Interrupt == <<"interrupt", "", "">>
Unhandled == <<"unhandled", "", "">>
SaveCut == <<"save_cut", "", "">>

\* what the log gets for one invocation
Events(step, p, raised) ==
    IF raised THEN <<Invoke(step, p), Raised(step, p)>> ELSE <<Invoke(step, p)>>

(***************************************************************************)
(* migrate_users (migration/create/users.py) in detail.  An e-mail is      *)
(* <<name, c>>: the address name, written in lower case or with upper-case *)
(* letters; NoEmail is the empty string.  A source user is the dict that   *)
(* extract_users returns: id (0: none), email, is_active, uuid (0: the     *)
(* record has neither 'uuid' nor 'author_uuid').  A target user is what    *)
(* the listing of the target returns: its e-mail (userName in SCIM) and    *)
(* its id.                                                                 *)
(*   source_users   the source users, in the order of extraction           *)
(*   users_config   users.create and users.inactive of the configuration   *)
(*   scim_client    how the SCIM client of the target answers: the listing *)
(*                  ("ok", "error") and create_user ("ok", "fails")        *)
(*   target_users   the users of the target before the call                *)
(*   user_result    what the call left: user_mapping, user_uuid_mapping,   *)
(*                  and the e-mails passed to create_user (in order)       *)
(***************************************************************************)
VARIABLES source_users, users_config, scim_client, target_users, user_result

usersvars == <<source_users, users_config, scim_client, target_users, user_result>>

Emails == {<<"a", "lower">>, <<"a", "upper">>, <<"b", "lower">>}
NoEmail == <<"", "lower">>
\* a comparison of e-mails as they are written
EmailAsWritten(e) == e

\* str.lower()
EmailLower(e) == <<e[1], "lower">>

SourceUser(id, email, is_active, uuid) ==
    [id |-> id, email |-> email, is_active |-> is_active, uuid |-> uuid]

\* the source user at position i: active users with any e-mail, with or without
\* a uuid; an inactive one; one without an id; one without an e-mail
SourceUserChoices(i) ==
    {SourceUser(i, e, TRUE, u) : e \in Emails, u \in {0, i}}
    \cup {SourceUser(i, <<"b", "lower">>, FALSE, i),
          SourceUser(0, <<"a", "lower">>, TRUE, i),
          SourceUser(i, NoEmail, TRUE, i)}

TargetUser(email, id) == [email |-> email, id |-> id]

\* the users of the target: e-mails are unique up to letter case
TargetUserChoices ==
    {{}, {TargetUser(<<"a", "lower">>, 2)}, {TargetUser(<<"a", "upper">>, 2)},
     {TargetUser(<<"a", "upper">>, 2), TargetUser(<<"b", "lower">>, 3)}}

NoUsers == [user_mapping |-> EmptyDict, user_uuid_mapping |-> EmptyDict,
            created |-> << >>, done |-> FALSE]

\* migrate_users is not running
UsersIdle ==
    /\ source_users = << >>
    /\ users_config = [create |-> FALSE, inactive |-> FALSE]
    /\ scim_client = [listing |-> "ok", create |-> "ok"]
    /\ target_users = {}
    /\ user_result = NoUsers

(***************************************************************************)
(* The references of one source case, run or defect, as the migrators      *)
(* rewrite them (transform_case_data, the loop bodies of migrate_runs and  *)
(* migrate_defects).  The entity names its author by author_uuid (cases    *)
(* only; the uuid of source user j is j) or by user id (member_id for      *)
(* cases and defects, user_id for runs); 0 stands for an absent field.     *)
(*   ref_entity  the source entity                                         *)
(*   ref_maps    suite_mapping and milestone_mapping handed to the call    *)
(*   ref_out     raised: the call raised; else the author_id, suite_id and *)
(*               milestone_id of the data built (0: the key is left out    *)
(*               or None)                                                  *)
(***************************************************************************)
VARIABLES ref_entity, ref_maps, ref_out

refvars == <<ref_entity, ref_maps, ref_out>>

\* the literal 1 that the transformations use for an author they cannot map
DefaultAuthor == 1

RefEntity(kind, author_uuid, user_id, suite_id, milestone_id) ==
    [kind |-> kind, author_uuid |-> author_uuid, user_id |-> user_id,
     suite_id |-> suite_id, milestone_id |-> milestone_id]

\* the target id of the one suite and of the one milestone that can be mapped
RefMapChoices ==
    [suite_mapping : {EmptyDict, Put(EmptyDict, IntKey(1), 5)},
     milestone_mapping : {EmptyDict, Put(EmptyDict, IntKey(1), 6)}]

RefData(author_id, suite_id, milestone_id) ==
    [raised |-> FALSE, done |-> TRUE, author_id |-> author_id,
     suite_id |-> suite_id, milestone_id |-> milestone_id]

\* AttributeError: MigrationMappings has no method get_user_id
RefRaised == [raised |-> TRUE, done |-> TRUE, author_id |-> 0,
              suite_id |-> 0, milestone_id |-> 0]

NoRef == [raised |-> FALSE, done |-> FALSE, author_id |-> 0,
          suite_id |-> 0, milestone_id |-> 0]

\* nothing is being transformed
RefsIdle ==
    /\ ref_entity = RefEntity("none", 0, 0, 0, 0)
    /\ ref_maps = [suite_mapping |-> EmptyDict, milestone_mapping |-> EmptyDict]
    /\ ref_out = NoRef

(***************************************************************************)
(* migrate_results (migration/create/results.py) for one project whose     *)
(* run_mapping holds the runs RunSeq, in the order of their creation.      *)
(*   source_results    per run: n, the number of results extracted, and    *)
(*                     skip, the position of the one result whose case is  *)
(*                     not in case_mapping (0: every case is mapped)       *)
(*   runs_to_complete  mappings._runs_to_complete of the project: the runs *)
(*                     whose source run was completed or has an end time   *)
(*   rpos              the run and the chunk the loop is at                *)
(*   run_status        the target runs: "open" or "completed"              *)
(* History variables: requests, every CreateResultsRequestV2 built, with   *)
(* its run, its results and how the target answered; completes, every call *)
(* of complete_run.                                                        *)
(***************************************************************************)
VARIABLES source_results, runs_to_complete, rpos, run_status, requests, completes

resultvars == <<source_results, runs_to_complete, rpos, run_status, requests, completes>>

\* the runs of the project
RunSeq == <<1, 2>>
RunIds == {RunSeq[i] : i \in DOMAIN RunSeq}

\* chunks that leave out the element after each chunk
chunks_with_gap(lst, n) ==
    [k \in 1..((Len(lst) + n) \div (n + 1)) |->
        SubSeq(lst, (k - 1) * (n + 1) + 1,
               IF (k - 1) * (n + 1) + n < Len(lst) THEN (k - 1) * (n + 1) + n ELSE Len(lst))]

\* chunks(lst, n): lst[i:i + n] for i in range(0, len(lst), n)
chunks(lst, n) ==
    [k \in 1..((Len(lst) + n - 1) \div n) |->
        SubSeq(lst, (k - 1) * n + 1, IF k * n < Len(lst) THEN k * n ELSE Len(lst))]

\* results_to_create of a run: the results whose case is mapped, in source order
results_to_create(sr) ==
    SelectSeq([i \in 1..sr.n |-> i], LAMBDA i : i # sr.skip)

\* migrate_results has not been called
ResultsIdle ==
    /\ source_results = [r \in RunIds |-> [n |-> 0, skip |-> 0]]
    /\ runs_to_complete = {}
    /\ rpos = [run |-> 1, chunk |-> 1]
    /\ run_status = [r \in RunIds |-> "open"]
    /\ requests = << >>
    /\ completes = << >>

(***************************************************************************)
(* The offset/limit loop of extract_projects, extract_results and          *)
(* extract_runs (migration/extract).  The source serves the entities       *)
(* 1..served; a request for (offset, limit) is answered with the entities  *)
(* offset+1 .. offset+limit that exist, and, for runs, with the total.     *)
(*   extractor      "projects", "results" or "runs"                        *)
(*   served         the number of entities the source holds                *)
(*   only_projects  the filter of extract_projects: << >> (None), or the   *)
(*                  entities to keep                                       *)
(*   offset         the local of that name                                 *)
(*   extracted      the list the extractor builds                          *)
(*   extract_done   the loop was left                                      *)
(* History variable: fetched, the offset of every request and the number   *)
(* of entities in its answer.                                              *)
(***************************************************************************)
VARIABLES extractor, served, only_projects, offset, extracted, extract_done, fetched

pagevars == <<extractor, served, only_projects, offset, extracted, extract_done, fetched>>

\* an offset that moves one too far
offset_skipping(o, l) == o + l + 1

\* offset += limit
next_offset(o, l) == o + l

\* the answer of the source to a request for (o, l)
page(n, o, l) == [i \in 1..(IF o >= n THEN 0 ELSE IF o + l <= n THEN l ELSE n - o) |-> o + i]

\* the entities of a page that extract_projects keeps
kept(ex, filter, p) ==
    IF ex = "projects" /\ filter # << >>
    THEN SelectSeq(p, LAMBDA x : \E j \in DOMAIN filter : filter[j] = x)
    ELSE p

\* the break after a page was appended: a page shorter than limit; extract_runs
\* also stops when offset + len(page) reaches the total of the answer
last_page(ex, n, o, l, p) ==
    \/ Len(p) < l
    \/ ex = "runs" /\ o + Len(p) >= n

\* no extractor is running
PagesIdle ==
    /\ extractor = "none"
    /\ served = 0
    /\ only_projects = << >>
    /\ offset = 0
    /\ extracted = << >>
    /\ extract_done = FALSE
    /\ fetched = << >>

(***************************************************************************)
(* QaseRawApiClient.create_cases_bulk (migration/utils.py), called by      *)
(* migrate_cases for one case with shared steps.                           *)
(*   bulk_answers  what the target answers to the first, second, ... POST  *)
(*                 of the request: an HTTP status, or 0 when requests.post *)
(*                 raises                                                  *)
(*   bulk_posts    the POSTs made                                          *)
(*   created_ids   what the call returned: "pending", "ids" or "None"      *)
(***************************************************************************)
VARIABLES bulk_answers, bulk_posts, created_ids

bulkvars == <<bulk_answers, bulk_posts, created_ids>>

BulkStatuses == {0, 200, 400, 429, 500}

\* no bulk call is in progress
BulkIdle ==
    /\ bulk_answers = << >>
    /\ bulk_posts = 0
    /\ created_ids = "pending"

(***************************************************************************)
(* create_project (migration/create/projects.py), called by                *)
(* migrate_projects for each source project, in one or more runs of the    *)
(* tool on the same target.  The target holds at most one project per code *)
(* and answers a create for a code it holds with 400 "already exists".     *)
(*   target_projects  per code: "absent", "held" (the target had the       *)
(*                    project before the first run) or "created" (by a     *)
(*                    create call of the tool)                             *)
(*   source_projects  the source projects the current run has yet to       *)
(*                    handle                                               *)
(*   project_run      the number of the current run                        *)
(*   projects_store   mappings.projects of the current run                 *)
(*   project_call     the last call of create_project in the current run:  *)
(*                    the code, whether                                    *)
(*                    the target had a project of that code, what the      *)
(*                    probe get_project did, what the create call did      *)
(*                    ("none": not issued), what the second probe did and  *)
(*                    what the function returned                           *)
(***************************************************************************)
VARIABLES target_projects, source_projects, project_run, projects_store, project_call

projectvars == <<target_projects, source_projects, project_run, projects_store,
                 project_call>>

\* a probe that ignores what get_project answered
probe_ignored(probe) == FALSE

\* lines 38-51: the probe returned a project (status and result set)
probe_found(probe) == probe = "found"

\* what get_project can do for a code: return the project, raise ApiException 404,
\* or raise anything else (another status, a network error)
ProbeAnswers(held) == IF held THEN {"found", "error"} ELSE {"not_found", "error"}

\* what the retried create call can do: the project is created, the target rejects
\* the code it holds already, or the call ends with another exception
CreateAnswers(held) == IF held THEN {"already_exists", "error"} ELSE {"created", "error"}

ProjectCall(code, held, probe, create, second_probe, returned) ==
    [code |-> code, held |-> held, probe |-> probe, create |-> create,
     second_probe |-> second_probe, returned |-> returned]

NoProjectCall == ProjectCall("", FALSE, "none", "none", "none", "none")

\* no run of the project migration is in progress
ProjectsIdle ==
    /\ target_projects = [c \in ProjectCodes |-> "absent"]
    /\ source_projects = << >>
    /\ project_run = 0
    /\ projects_store = EmptyDict
    /\ project_call = NoProjectCall

(***************************************************************************)
(* migrate_custom_fields (migration/create/custom_fields.py), one          *)
(* invocation.  A title is <<name, form>>: the name written in lower case, *)
(* with upper-case letters, or with blanks around it.                      *)
(*   source_fields    the source fields not yet handled, each an id and a  *)
(*                    title                                                *)
(*   target_fields    the fields of the target: title and id               *)
(*   existing_fields  whether get_existing_custom_fields has returned, and *)
(*                    the dict it returned: normalized title -> id         *)
(*   field_store      mappings.custom_fields                               *)
(*   field_creates    one record per create call: the title sent and the   *)
(*                    ids of the target fields that had an equal           *)
(*                    normalized title when the call was issued            *)
(***************************************************************************)
VARIABLES source_fields, target_fields, existing_fields, field_store, field_creates

fieldvars == <<source_fields, target_fields, existing_fields, field_store, field_creates>>

TitleNames == {"priority", "browser"}
TitleForms == {"lower", "upper", "padded"}
Titles == TitleNames \X TitleForms

\* title.strip().lower()
NormalizedTitle(title) == <<title[1], "lower">>

Field(id, title) == [id |-> id, title |-> title]

\* the target fields whose normalized title equals that of title
SameTitle(fields, title) ==
    {f \in fields : NormalizedTitle(f.title) = NormalizedTitle(title)}

NotFetched == [fetched |-> FALSE, by_title |-> EmptyDict]

\* no invocation of migrate_custom_fields is in progress
FieldsIdle ==
    /\ source_fields = << >>
    /\ target_fields = {}
    /\ existing_fields = NotFetched
    /\ field_store = EmptyDict
    /\ field_creates = << >>

(***************************************************************************)
(* migrate_attachments_workspace (migration/create/attachments.py) in      *)
(* detail, one invocation.  The extraction lower-cases every hash, so a    *)
(* hash is a number of AttachmentHashes.                                   *)
(*   all_attachments            the hashes each project references         *)
(*   target_attachments         the source hashes that exist in the target *)
(*   existing_attachments       what check_existing_attachments_in_target  *)
(*                              returned (the scan of the target's cases)  *)
(*   attachments_store          mappings.attachments                       *)
(*   global_attachment_set      the hashes the loop has yet to visit       *)
(*   global_attachment_mapping  the local dict of that name                *)
(*   uploads                    one record per call of upload_attachment:  *)
(*                              the hash, whether a project's map held it, *)
(*                              whether the target held it, and what the   *)
(*                              probes had answered                        *)
(*   attachments_recorded       whether the closing loop (361-374) has run *)
(***************************************************************************)
VARIABLES all_attachments, target_attachments, existing_attachments, attachments_store,
          global_attachment_set, global_attachment_mapping, uploads, attachments_recorded

attachmentvars == <<all_attachments, target_attachments, existing_attachments,
                    attachments_store, global_attachment_set, global_attachment_mapping,
                    uploads, attachments_recorded>>

AttachmentHashes == 1..NumHashes

\* the hash an upload returns for source hash h, and the hash of a file that the
\* target holds under the source hash
UploadedHash(h) == <<"uploaded", h>>
SameHash(h) == <<"same", h>>

\* a loop that looks at no project's map
never_mapped(store, h) == FALSE

\* lines 285-296: some project's map holds the hash
already_mapped(store, h) == \E code \in DOMAIN store : Has(store[code], h)

\* what the get_attachment probes of lines 307-323 (one per project, retried) come
\* to: one returned the attachment, none did and one answered 404, or all raised
ProbeResults(held) == IF held THEN {"found", "error"} ELSE {"not_found", "error"}

\* no invocation of migrate_attachments_workspace is in progress
AttachmentsIdle ==
    /\ all_attachments = EmptyDict
    /\ target_attachments = {}
    /\ existing_attachments = {}
    /\ attachments_store = EmptyDict
    /\ global_attachment_set = {}
    /\ global_attachment_mapping = EmptyDict
    /\ uploads = << >>
    /\ attachments_recorded = FALSE

(***************************************************************************)
(* mappings.target_workspace_hash over one run of the tool: the uploads of *)
(* upload_attachment (migration/create/attachments.py) and the markdown    *)
(* rewrites of migrate_cases and migrate_results that follow or precede    *)
(* them.                                                                   *)
(*   workspace_hash   mappings.target_workspace_hash (0 is None)           *)
(*   first_url_hash   the workspace hash in the URL of the first upload    *)
(*                    response that carried one (0: none so far)           *)
(*   upload_count     the uploads made so far                              *)
(*   rewrite          the last rewrite: the kind of entity, the text, the  *)
(*                    attachment map of the project, first_url_hash when   *)
(*                    it was made, and the text written                    *)
(***************************************************************************)
VARIABLES workspace_hash, first_url_hash, upload_count, rewrite

hashvars == <<workspace_hash, first_url_hash, upload_count, rewrite>>

\* the workspace hashes an upload URL can carry; 0: the response has no URL or
\* the URL has no /public/team/{hash}/ part
UrlWorkspaceHashes == {0, TargetWorkspaceHash, TargetWorkspaceHash + 2}

\* a store that takes the hash of every URL that carries one
workspace_hash_overwritten(current, url_hash) ==
    IF url_hash # 0 THEN url_hash ELSE current

\* lines 233-236: set only while unset, from a URL that carries a hash
workspace_hash_after_upload(current, url_hash) ==
    IF url_hash # 0 /\ current = 0 THEN url_hash ELSE current

NoRewrite == [kind |-> "none", text |-> << >>, map |-> EmptyDict, first |-> 0,
              out |-> << >>]

HashIdle ==
    /\ workspace_hash = 0
    /\ first_url_hash = 0
    /\ upload_count = 0
    /\ rewrite = NoRewrite

(***************************************************************************)
(* The completion sets of migrate_runs (migration/create/runs.py) over the *)
(* projects of one run of the tool.  The function object migrate_runs      *)
(* lives as long as the process; main calls it once per project and goes   *)
(* on to the next step when it raises.  The target numbers the runs of     *)
(* each project from 1.                                                    *)
(*   ended_runs        per project, for each source run in the order of    *)
(*                     extract_runs: is_completed or end_time set          *)
(*   runs_invoked      the projects for which migrate_runs has been called *)
(*   function_attr     migrate_runs._runs_to_complete: whether the         *)
(*                     attribute exists, and the dict target run id ->     *)
(*                     project_code                                        *)
(*   mappings_runs_to_complete  mappings._runs_to_complete: project -> dict *)
(*   ended_created     per project, the target runs its invocation created *)
(*                     from source runs that are completed or ended        *)
(*   runs_raised       the projects whose invocation raised                *)
(***************************************************************************)
VARIABLES ended_runs, runs_invoked, function_attr, mappings_runs_to_complete,
          ended_created, runs_raised

completionvars == <<ended_runs, runs_invoked, function_attr,
                    mappings_runs_to_complete, ended_created, runs_raised>>

NoAttr == [has |-> FALSE, runs |-> EmptyDict]

\* the attribute as an invocation finds it: what the last one left
attr_found(attr) == attr

EndedFlags == UNION {[1..n -> BOOLEAN] : n \in 0..MaxSourceRuns}

CompletionIdle ==
    /\ ended_runs = [p \in ProjectCodes |-> << >>]
    /\ runs_invoked = 0
    /\ function_attr = NoAttr
    /\ mappings_runs_to_complete = EmptyDict
    /\ ended_created = [p \in ProjectCodes |-> EmptyDict]
    /\ runs_raised = {}

(***************************************************************************)
(* migrate_suites (migration/create/suites.py) for one project.  The       *)
(* source suites are 1..NumSuites, listed in that order; each has a        *)
(* parent_id (0 is null) and the parents form a forest.                    *)
(*   suite_parent   parent_id of every source suite                        *)
(*   suite_calls    the calls of migrate_suite_recursive yet to be made,   *)
(*                  in the order the recursion makes them: the source      *)
(*                  suite and parent_target_id (0 is None)                 *)
(*   suites_mapped  suite_mapping of the invocation                        *)
(*   suite_creates  the create_suite calls made, in order: the source      *)
(*                  suite, the parent_id sent, how the call ended and the  *)
(*                  id the target gave (0: none)                           *)
(*   suites_store   mappings.suites[project]                               *)
(*   suites_done    migrate_suites has returned                            *)
(***************************************************************************)
VARIABLES suite_parent, suite_calls, suites_mapped, suite_creates, suites_store,
          suites_done

suitevars == <<suite_parent, suite_calls, suites_mapped, suite_creates, suites_store,
               suites_done>>

SuiteIds == 1..NumSuites

\* the n-th parent of suite s under the parent function f (0 above a root)
RECURSIVE Up(_, _, _)
Up(f, s, n) == IF n = 0 \/ s = 0 THEN s ELSE Up(f, f[s], n - 1)

\* the parent functions of a forest
Forests == {f \in [SuiteIds -> 0..NumSuites] : \A s \in SuiteIds : Up(f, s, NumSuites) = 0}

\* extract_suites, lines 47-55: parent_child_map[parent], in the order of the listing
RECURSIVE ChildrenFrom(_, _, _)
ChildrenFrom(f, parent, s) ==
    IF s > NumSuites THEN << >>
    ELSE (IF f[s] = parent THEN <<s>> ELSE << >>) \o ChildrenFrom(f, parent, s + 1)

parent_child_map(f, parent) == ChildrenFrom(f, parent, 1)

\* a recursion that hands its own parent_target_id down to the children
parent_target_id_kept(target_suite_id, parent_target_id) == parent_target_id

\* lines 59-66: the children are migrated with the new suite's target id as parent
parent_target_id_of_children(target_suite_id, parent_target_id) == target_suite_id

\* the calls for the suites of ids, each with parent_target_id pt
SuiteCalls(ids, pt) == [i \in DOMAIN ids |-> [suite |-> ids[i], parent_target_id |-> pt]]

\* how create_suite can end: an id is returned, the call raises after its retries,
\* or the response carries no id
CreateSuiteAnswers == {"created", "raises", "no_id"}

SuitesIdle ==
    /\ suite_parent = [s \in SuiteIds |-> 0]
    /\ suite_calls = << >>
    /\ suites_mapped = EmptyDict
    /\ suite_creates = << >>
    /\ suites_store = EmptyDict
    /\ suites_done = FALSE

\* main is not running: the unit-level specifications leave it alone
MainIdle ==
    /\ pc = "idle"
    /\ pidx = 1
    /\ phase = "first"
    /\ cfg = [migrate_users |-> FALSE, skip_projects |-> {}, resume |-> FALSE]
    /\ mappings = NewMappings
    /\ target = InitTarget
    /\ file = NoFile
    /\ loc = InitLoc
    /\ exit_status = -1
    /\ faults = 0
    /\ log = << >>
    /\ saved = NewMappings
    /\ loaded = NoLoad
    /\ produced = EmptyDict
    /\ recv = EmptyDict

\* ---- frame conditions ----
\* the variables of the unit-level specifications, which main leaves alone
unitvars == <<retryvars, statsvars, transformvars, usersvars, refvars, resultvars, pagevars, bulkvars, projectvars, fieldvars, attachmentvars, hashvars, completionvars, suitevars>>

vars == <<mainvars, unitvars>>

\* no unit-level specification is running
UnitsIdle ==
    /\ RetryIdle
    /\ StatsIdle
    /\ TransformIdle
    /\ UsersIdle
    /\ RefsIdle
    /\ ResultsIdle
    /\ PagesIdle
    /\ BulkIdle
    /\ ProjectsIdle
    /\ FieldsIdle
    /\ AttachmentsIdle
    /\ HashIdle
    /\ CompletionIdle
    /\ SuitesIdle

\* what the specification of retryvars leaves alone
RetryFrame == <<mainvars, statsvars, transformvars, usersvars, refvars, resultvars, pagevars, bulkvars, projectvars, fieldvars, attachmentvars, hashvars, completionvars, suitevars>>

RetryAlone ==
    /\ MainIdle
    /\ StatsIdle
    /\ TransformIdle
    /\ UsersIdle
    /\ RefsIdle
    /\ ResultsIdle
    /\ PagesIdle
    /\ BulkIdle
    /\ ProjectsIdle
    /\ FieldsIdle
    /\ AttachmentsIdle
    /\ HashIdle
    /\ CompletionIdle
    /\ SuitesIdle

\* what the specification of statsvars leaves alone
StatsFrame == <<mainvars, retryvars, transformvars, usersvars, refvars, resultvars, pagevars, bulkvars, projectvars, fieldvars, attachmentvars, hashvars, completionvars, suitevars>>

StatsAlone ==
    /\ MainIdle
    /\ RetryIdle
    /\ TransformIdle
    /\ UsersIdle
    /\ RefsIdle
    /\ ResultsIdle
    /\ PagesIdle
    /\ BulkIdle
    /\ ProjectsIdle
    /\ FieldsIdle
    /\ AttachmentsIdle
    /\ HashIdle
    /\ CompletionIdle
    /\ SuitesIdle

\* what the specification of transformvars leaves alone
TransformFrame == <<mainvars, retryvars, statsvars, usersvars, refvars, resultvars, pagevars, bulkvars, projectvars, fieldvars, attachmentvars, hashvars, completionvars, suitevars>>

TransformAlone ==
    /\ MainIdle
    /\ RetryIdle
    /\ StatsIdle
    /\ UsersIdle
    /\ RefsIdle
    /\ ResultsIdle
    /\ PagesIdle
    /\ BulkIdle
    /\ ProjectsIdle
    /\ FieldsIdle
    /\ AttachmentsIdle
    /\ HashIdle
    /\ CompletionIdle
    /\ SuitesIdle

\* what the specification of usersvars leaves alone
UsersFrame == <<mainvars, retryvars, statsvars, transformvars, refvars, resultvars, pagevars, bulkvars, projectvars, fieldvars, attachmentvars, hashvars, completionvars, suitevars>>

UsersAlone ==
    /\ MainIdle
    /\ RetryIdle
    /\ StatsIdle
    /\ TransformIdle
    /\ RefsIdle
    /\ ResultsIdle
    /\ PagesIdle
    /\ BulkIdle
    /\ ProjectsIdle
    /\ FieldsIdle
    /\ AttachmentsIdle
    /\ HashIdle
    /\ CompletionIdle
    /\ SuitesIdle

\* what the specification of refvars leaves alone
RefsFrame == <<mainvars, retryvars, statsvars, transformvars, usersvars, resultvars, pagevars, bulkvars, projectvars, fieldvars, attachmentvars, hashvars, completionvars, suitevars>>

RefsAlone ==
    /\ MainIdle
    /\ RetryIdle
    /\ StatsIdle
    /\ TransformIdle
    /\ UsersIdle
    /\ ResultsIdle
    /\ PagesIdle
    /\ BulkIdle
    /\ ProjectsIdle
    /\ FieldsIdle
    /\ AttachmentsIdle
    /\ HashIdle
    /\ CompletionIdle
    /\ SuitesIdle

\* what the specification of resultvars leaves alone
ResultsFrame == <<mainvars, retryvars, statsvars, transformvars, usersvars, refvars, pagevars, bulkvars, projectvars, fieldvars, attachmentvars, hashvars, completionvars, suitevars>>

ResultsAlone ==
    /\ MainIdle
    /\ RetryIdle
    /\ StatsIdle
    /\ TransformIdle
    /\ UsersIdle
    /\ RefsIdle
    /\ PagesIdle
    /\ BulkIdle
    /\ ProjectsIdle
    /\ FieldsIdle
    /\ AttachmentsIdle
    /\ HashIdle
    /\ CompletionIdle
    /\ SuitesIdle

\* what the specification of pagevars leaves alone
PagesFrame == <<mainvars, retryvars, statsvars, transformvars, usersvars, refvars, resultvars, bulkvars, projectvars, fieldvars, attachmentvars, hashvars, completionvars, suitevars>>

PagesAlone ==
    /\ MainIdle
    /\ RetryIdle
    /\ StatsIdle
    /\ TransformIdle
    /\ UsersIdle
    /\ RefsIdle
    /\ ResultsIdle
    /\ BulkIdle
    /\ ProjectsIdle
    /\ FieldsIdle
    /\ AttachmentsIdle
    /\ HashIdle
    /\ CompletionIdle
    /\ SuitesIdle

\* what the specification of bulkvars leaves alone
BulkFrame == <<mainvars, retryvars, statsvars, transformvars, usersvars, refvars, resultvars, pagevars, projectvars, fieldvars, attachmentvars, hashvars, completionvars, suitevars>>

BulkAlone ==
    /\ MainIdle
    /\ RetryIdle
    /\ StatsIdle
    /\ TransformIdle
    /\ UsersIdle
    /\ RefsIdle
    /\ ResultsIdle
    /\ PagesIdle
    /\ ProjectsIdle
    /\ FieldsIdle
    /\ AttachmentsIdle
    /\ HashIdle
    /\ CompletionIdle
    /\ SuitesIdle

\* what the specification of projectvars leaves alone
ProjectsFrame == <<mainvars, retryvars, statsvars, transformvars, usersvars, refvars, resultvars, pagevars, bulkvars, fieldvars, attachmentvars, hashvars, completionvars, suitevars>>

ProjectsAlone ==
    /\ MainIdle
    /\ RetryIdle
    /\ StatsIdle
    /\ TransformIdle
    /\ UsersIdle
    /\ RefsIdle
    /\ ResultsIdle
    /\ PagesIdle
    /\ BulkIdle
    /\ FieldsIdle
    /\ AttachmentsIdle
    /\ HashIdle
    /\ CompletionIdle
    /\ SuitesIdle

\* what the specification of fieldvars leaves alone
FieldsFrame == <<mainvars, retryvars, statsvars, transformvars, usersvars, refvars, resultvars, pagevars, bulkvars, projectvars, attachmentvars, hashvars, completionvars, suitevars>>

FieldsAlone ==
    /\ MainIdle
    /\ RetryIdle
    /\ StatsIdle
    /\ TransformIdle
    /\ UsersIdle
    /\ RefsIdle
    /\ ResultsIdle
    /\ PagesIdle
    /\ BulkIdle
    /\ ProjectsIdle
    /\ AttachmentsIdle
    /\ HashIdle
    /\ CompletionIdle
    /\ SuitesIdle

\* what the specification of attachmentvars leaves alone
AttachmentsFrame == <<mainvars, retryvars, statsvars, transformvars, usersvars, refvars, resultvars, pagevars, bulkvars, projectvars, fieldvars, hashvars, completionvars, suitevars>>

AttachmentsAlone ==
    /\ MainIdle
    /\ RetryIdle
    /\ StatsIdle
    /\ TransformIdle
    /\ UsersIdle
    /\ RefsIdle
    /\ ResultsIdle
    /\ PagesIdle
    /\ BulkIdle
    /\ ProjectsIdle
    /\ FieldsIdle
    /\ HashIdle
    /\ CompletionIdle
    /\ SuitesIdle

\* what the specification of hashvars leaves alone
HashFrame == <<mainvars, retryvars, statsvars, transformvars, usersvars, refvars, resultvars, pagevars, bulkvars, projectvars, fieldvars, attachmentvars, completionvars, suitevars>>

HashAlone ==
    /\ MainIdle
    /\ RetryIdle
    /\ StatsIdle
    /\ TransformIdle
    /\ UsersIdle
    /\ RefsIdle
    /\ ResultsIdle
    /\ PagesIdle
    /\ BulkIdle
    /\ ProjectsIdle
    /\ FieldsIdle
    /\ AttachmentsIdle
    /\ CompletionIdle
    /\ SuitesIdle

\* what the specification of completionvars leaves alone
CompletionFrame == <<mainvars, retryvars, statsvars, transformvars, usersvars, refvars, resultvars, pagevars, bulkvars, projectvars, fieldvars, attachmentvars, hashvars, suitevars>>

CompletionAlone ==
    /\ MainIdle
    /\ RetryIdle
    /\ StatsIdle
    /\ TransformIdle
    /\ UsersIdle
    /\ RefsIdle
    /\ ResultsIdle
    /\ PagesIdle
    /\ BulkIdle
    /\ ProjectsIdle
    /\ FieldsIdle
    /\ AttachmentsIdle
    /\ HashIdle
    /\ SuitesIdle

\* what the specification of suitevars leaves alone
SuitesFrame == <<mainvars, retryvars, statsvars, transformvars, usersvars, refvars, resultvars, pagevars, bulkvars, projectvars, fieldvars, attachmentvars, hashvars, completionvars>>

SuitesAlone ==
    /\ MainIdle
    /\ RetryIdle
    /\ StatsIdle
    /\ TransformIdle
    /\ UsersIdle
    /\ RefsIdle
    /\ ResultsIdle
    /\ PagesIdle
    /\ BulkIdle
    /\ ProjectsIdle
    /\ FieldsIdle
    /\ AttachmentsIdle
    /\ HashIdle
    /\ CompletionIdle

\* ---- end of frame conditions ----

Init ==
    /\ pc = "start"
    /\ pidx = 1
    /\ phase = "first"
    /\ cfg \in [migrate_users : BOOLEAN, skip_projects : SkipChoices,
                resume : BOOLEAN]
    /\ mappings = NewMappings
    /\ target = InitTarget
    /\ file = NoFile
    /\ loc = InitLoc
    /\ exit_status = -1
    /\ faults = 0
    /\ log = << >>
    /\ saved = NewMappings
    /\ loaded = NoLoad
    /\ produced = EmptyDict
    /\ recv = EmptyDict
    /\ UnitsIdle

\* a loop body that migrates the cases before the suites
StepAfterCasesFirst(step) ==
    CASE step = "shared_steps" -> "cases"
      [] step = "cases" -> "suites"
      [] step = "suites" -> "plans"
      [] step = "results" -> "milestones"
      [] OTHER -> ProjectSteps[Index(ProjectSteps, step) + 1]

\* a loop body that migrates the runs before the plans
StepAfterRunsFirst(step) ==
    CASE step = "cases" -> "runs"
      [] step = "runs" -> "plans"
      [] step = "plans" -> "results"
      [] step = "results" -> "milestones"
      [] OTHER -> ProjectSteps[Index(ProjectSteps, step) + 1]

\* the step that follows a project step, and the project it runs for
StepAfter(step) ==
    IF step = "results" THEN "milestones" ELSE ProjectSteps[Index(ProjectSteps, step) + 1]

\* a loop over the projects that ends after the first project
NextPcFirstProjectOnly(step) ==
    IF step = "results" THEN "final" ELSE StepAfter(step)

NextPc(step) ==
    IF step = "results" /\ pidx = Len(loc.projects) THEN "final" ELSE StepAfter(step)

NextPidx(step) ==
    IF step = "results" /\ pidx < Len(loc.projects) THEN pidx + 1 ELSE pidx

\* mappings.save_to_file(args.mappings_file) at the end of a step, store m in hand:
\* open(path, 'w') empties the file and json.dump then writes the document.  Either
\* the write completes and main goes on to pc2, or the process is killed between
\* the two and the file stays cut short.  nf: failures injected earlier in the step
SaveAndGo(store, events, pc2, pidx2, status, nf) ==
    \E m \in {store} : \E written \in BOOLEAN :
        /\ faults' = faults + nf + (IF written THEN 0 ELSE 1)
        /\ faults' <= MaxFaults
        /\ log' = log \o events \o (IF written THEN <<Save>> ELSE <<SaveCut>>)
        /\ mappings' = m
        /\ IF written
           THEN /\ file' = save_to_file(m)
                /\ saved' = m
                /\ pc' = pc2
                /\ pidx' = pidx2
                /\ exit_status' = status
           ELSE /\ file' = PartialFile
                /\ saved' = saved
                /\ pc' = "killed"
                /\ pidx' = pidx
                /\ exit_status' = -1

\* the handlers at the end of main (except KeyboardInterrupt / except Exception):
\* save the store, sys.exit(1)
TopLevelHandler(m, events, nf) == SaveAndGo(m, events, "exit", pidx, 1, nf)

\* the mappings main hands to migrate_cases (lines 380-392)
CaseArguments ==
    [suite_mapping |-> loc.suite_mapping,
     custom_field_mapping |-> loc.custom_field_mapping,
     milestone_mapping |-> loc.milestone_mapping,
     shared_step_mapping |-> loc.shared_step_mapping,
     shared_parameter_mapping |-> loc.shared_parameter_mapping,
     user_mapping |-> loc.user_mapping]

\* KeyboardInterrupt delivered while step is about to issue its first remote call:
\* no handler inside the migrators or the inner try blocks catches it
Interrupted(step, p) ==
    /\ TopLevelHandler(mappings, <<Invoke(step, p), Interrupt>>, 1)
    /\ recv' = IF step = "cases" THEN Put(recv, p, CaseArguments) ELSE recv
    /\ UNCHANGED <<target, loc, produced, phase, cfg, loaded>>

\* main up to the try block: the store is created and, with --resume, loaded.
\* json.load raises JSONDecodeError on a document that was cut short; only
\* FileNotFoundError is caught and the call is outside the try block of main, so
\* the process ends with a traceback and status 1
Start ==
    /\ pc = "start"
    /\ IF cfg.resume /\ file.kind = "partial"
       THEN /\ pc' = "exit"
            /\ exit_status' = 1
            /\ log' = log \o <<Load, Unhandled>>
            /\ UNCHANGED <<mappings, loaded>>
       ELSE /\ pc' = "projects"
            /\ exit_status' = -1
            /\ mappings' = IF cfg.resume THEN load_from_file(NewMappings, file)
                           ELSE NewMappings
            /\ log' = IF cfg.resume THEN log \o <<Load>> ELSE log
            /\ loaded' = IF cfg.resume /\ file.kind = "json"
                         THEN [done |-> TRUE, from |-> saved,
                               got |-> load_from_file(NewMappings, file)]
                         ELSE loaded
    /\ UNCHANGED <<pidx, phase, cfg, target, file, loc, faults, saved, produced, recv>>
    /\ UNCHANGED unitvars

\* STEP 1 (lines 206-223): migrate_projects, the skip_projects filter, the early
\* return when no project is left, the save
MigrateProjects ==
    /\ pc = "projects"
    /\ \/ \E fail \in 0..NumProjects :
            LET o == migrate_projects(mappings, target, phase, fail)
                projects == SelectSeq(o.ret, LAMBDA c : c \notin cfg.skip_projects)
            IN /\ o.ok
               /\ target' = o.t
               /\ produced' = Put(produced, <<"projects", "-">>, o.ret)
               /\ IF o.raised
                  THEN /\ TopLevelHandler(o.m, Events("projects", "-", TRUE), 1)
                       /\ loc' = loc
                  ELSE IF projects = << >>
                  THEN /\ pc' = "done"
                       /\ exit_status' = 0
                       /\ mappings' = o.m
                       /\ log' = log \o <<Invoke("projects", "-")>>
                       /\ loc' = [loc EXCEPT !.projects = projects]
                       /\ UNCHANGED <<pidx, file, saved, faults>>
                  ELSE /\ SaveAndGo(o.m, <<Invoke("projects", "-")>>,
                                    "users", pidx, -1, 0)
                       /\ loc' = [loc EXCEPT !.projects = projects]
               /\ UNCHANGED <<recv, phase, cfg, loaded>>
       \/ Interrupted("projects", "-")
    /\ UNCHANGED unitvars

\* STEP 2 with users.migrate (lines 229-265): migrate_users and the save; when it
\* raises, the fallback mapping (a second extract_users, which may fail as well:
\* migrate_users extracts the source users itself, so one outage of the source's
\* listing makes both raise) and the save; groups are then not attempted
MigrateUsers ==
    /\ pc = "users"
    /\ cfg.migrate_users
    /\ \/ LET o == migrate_users(mappings, target, phase, 0)
          IN /\ target' = o.t
             /\ produced' = Put(produced, <<"users", "-">>, o.ret)
             /\ loc' = [loc EXCEPT !.user_mapping = o.ret]
             /\ SaveAndGo(o.m, <<Invoke("users", "-")>>, "groups", pidx, -1, 0)
             /\ recv' = recv
       \/ \E fallback_ok \in BOOLEAN :
            LET user_mapping == IF fallback_ok THEN fallback_user_mapping ELSE EmptyDict
                m == IF fallback_ok THEN [mappings EXCEPT !.users = user_mapping]
                     ELSE mappings
            IN /\ target' = target
               /\ produced' = Put(produced, <<"users", "-">>, EmptyDict)
               /\ loc' = [loc EXCEPT !.user_mapping = user_mapping]
               /\ SaveAndGo(m, Events("users", "-", TRUE) \o <<Fallback>>, "custom_fields",
                            pidx, -1, 1)
               /\ recv' = recv
       \/ /\ Interrupted("users", "-")
    /\ UNCHANGED <<phase, cfg, loaded>>
    /\ UNCHANGED unitvars

\* STEP 2 without users.migrate (lines 266-274): empty user mapping, save
SkipUsers ==
    /\ pc = "users"
    /\ ~cfg.migrate_users
    /\ loc' = [loc EXCEPT !.user_mapping = EmptyDict]
    /\ SaveAndGo([mappings EXCEPT !.users = EmptyDict], << >>, "custom_fields", pidx, -1, 0)
    /\ UNCHANGED <<target, produced, recv, phase, cfg, loaded>>
    /\ UNCHANGED unitvars

\* STEP 2.5 (lines 242-250): migrate_groups inside its own try, save either way
MigrateGroups ==
    /\ pc = "groups"
    /\ \/ \E fail \in 0..1 :
            LET o == migrate_groups(mappings, target, phase, fail)
            IN /\ o.ok
               /\ target' = o.t
               /\ produced' = Put(produced, <<"groups", "-">>, o.ret)
               /\ SaveAndGo(o.m, Events("groups", "-", o.raised), "custom_fields",
                            pidx, -1, fail)
               /\ UNCHANGED <<loc, recv>>
       \/ /\ Interrupted("groups", "-")
    /\ UNCHANGED <<phase, cfg, loaded>>
    /\ UNCHANGED unitvars

\* a workspace-level step that main runs outside any inner try (STEPS 3, 4, 5):
\* the migrator, then the save; an exception goes to the handlers at the end of main
WorkspaceStep(step, outcome, local, pc2, nf) ==
    \E o \in {outcome} :
        /\ o.ok
        /\ target' = o.t
        /\ produced' = Put(produced, <<step, "-">>, o.ret)
        /\ IF o.raised
           THEN /\ TopLevelHandler(o.m, Events(step, "-", TRUE), nf)
                /\ loc' = loc
           ELSE /\ SaveAndGo(o.m, <<Invoke(step, "-")>>, pc2, 1, -1, nf)
                /\ loc' = IF local = "none" THEN loc ELSE [loc EXCEPT ![local] = o.ret]
        /\ UNCHANGED <<recv, phase, cfg, loaded>>

\* STEP 3 (lines 279-283)
MigrateCustomFields ==
    /\ pc = "custom_fields"
    /\ \/ \E fail \in 0..NumEnt :
            WorkspaceStep("custom_fields",
                          migrate_custom_fields(mappings, target, phase, fail),
                          "custom_field_mapping", "shared_parameters",
                          IF fail > 0 THEN 1 ELSE 0)
       \/ Interrupted("custom_fields", "-")
    /\ UNCHANGED unitvars

\* STEP 4 (lines 288-293)
MigrateSharedParameters ==
    /\ pc = "shared_parameters"
    /\ \/ \E fail \in 0..NumEnt :
            WorkspaceStep("shared_parameters",
                          migrate_shared_parameters(mappings, target, phase, fail),
                          "shared_parameter_mapping", "attachments",
                          IF fail > 0 THEN 1 ELSE 0)
       \/ Interrupted("shared_parameters", "-")
    /\ UNCHANGED unitvars

\* STEP 5 (lines 298-302); the project loop starts with the first project
MigrateAttachments ==
    /\ pc = "attachments"
    /\ \/ \E fail \in 0..NumEnt :
            WorkspaceStep("attachments",
                          migrate_attachments_workspace(mappings, target, phase,
                                                        loc.projects, fail),
                          "none", "milestones", IF fail > 0 THEN 1 ELSE 0)
       \/ Interrupted("attachments", "-")
    /\ UNCHANGED unitvars

\* a step of the project loop: try: migrator, save / except Exception: log, the
\* step's mapping becomes {}, save.  Either way main goes on to the next step
ProjectStep(step, outcome, nf) ==
    \E o \in {outcome} : \E p \in {loc.projects[pidx]} :
       /\ o.ok
       /\ target' = o.t
       /\ produced' = Put(produced, <<step, p>>, o.ret)
       /\ loc' = IF LocalOf(step) = "none" THEN loc
                 ELSE [loc EXCEPT ![LocalOf(step)] = IF o.raised THEN EmptyDict ELSE o.ret]
       /\ SaveAndGo(o.m, Events(step, p, o.raised), NextPc(step), NextPidx(step), -1, nf)
       /\ UNCHANGED <<phase, cfg, loaded>>

Fault(fail) == IF fail > 0 THEN 1 ELSE 0
CurrentProject == loc.projects[pidx]

MigrateMilestones ==
    /\ pc = "milestones"
    /\ \/ \E fail \in 0..NumEnt :
            /\ ProjectStep("milestones",
                   migrate_milestones(mappings, target, CurrentProject, phase, fail),
                   Fault(fail))
            /\ UNCHANGED recv
       \/ Interrupted("milestones", CurrentProject)
    /\ UNCHANGED unitvars

MigrateConfigurations ==
    /\ pc = "configurations"
    /\ \/ \E fail \in 0..(2 * NumEnt) :
            /\ ProjectStep("configurations",
                   migrate_configurations(mappings, target, CurrentProject, phase, fail),
                   Fault(fail))
            /\ UNCHANGED recv
       \/ Interrupted("configurations", CurrentProject)
    /\ UNCHANGED unitvars

MigrateEnvironments ==
    /\ pc = "environments"
    /\ \/ \E fail \in 0..NumEnt :
            /\ ProjectStep("environments",
                   migrate_environments(mappings, target, CurrentProject, phase, fail),
                   Fault(fail))
            /\ UNCHANGED recv
       \/ Interrupted("environments", CurrentProject)
    /\ UNCHANGED unitvars

MigrateSharedSteps ==
    /\ pc = "shared_steps"
    /\ \/ \E fail \in 0..NumEnt :
            /\ ProjectStep("shared_steps",
                   migrate_shared_steps(mappings, target, CurrentProject, phase, fail),
                   Fault(fail))
            /\ UNCHANGED recv
       \/ Interrupted("shared_steps", CurrentProject)
    /\ UNCHANGED unitvars

MigrateSuites ==
    /\ pc = "suites"
    /\ \/ \E fail \in 0..NumEnt :
            /\ ProjectStep("suites",
                   migrate_suites(mappings, target, CurrentProject, phase, fail),
                   Fault(fail))
            /\ UNCHANGED recv
       \/ Interrupted("suites", CurrentProject)
    /\ UNCHANGED unitvars

MigrateCases ==
    /\ pc = "cases"
    /\ \/ \E fail \in 0..1 :
            /\ ProjectStep("cases",
                   migrate_cases(mappings, target, CurrentProject, phase, fail),
                   Fault(fail))
            /\ recv' = Put(recv, CurrentProject, CaseArguments)
       \/ /\ Interrupted("cases", CurrentProject)
    /\ UNCHANGED unitvars

MigratePlans ==
    /\ pc = "plans"
    /\ \/ \E fail \in 0..NumEnt :
            /\ ProjectStep("plans",
                   migrate_plans(mappings, target, CurrentProject, phase,
                                 loc.case_mapping, fail),
                   Fault(fail))
            /\ UNCHANGED recv
       \/ Interrupted("plans", CurrentProject)
    /\ UNCHANGED unitvars

MigrateRuns ==
    /\ pc = "runs"
    /\ \/ \E fail \in 0..NumEnt :
            /\ ProjectStep("runs",
                   migrate_runs(mappings, target, CurrentProject, phase, fail),
                   Fault(fail))
            /\ UNCHANGED recv
       \/ Interrupted("runs", CurrentProject)
    /\ UNCHANGED unitvars

\* the call itself raises TypeError (see migrate_results): no fault is needed
MigrateResults ==
    /\ pc = "results"
    /\ \/ /\ ProjectStep("results",
                   migrate_results(mappings, target, CurrentProject, phase), 0)
          /\ UNCHANGED recv
       \/ Interrupted("results", CurrentProject)
    /\ UNCHANGED unitvars

\* lines 460-463: the summary, the last save, normal end of main
Finish ==
    /\ pc = "final"
    /\ SaveAndGo(mappings, << >>, "done", pidx, 0, 0)
    /\ UNCHANGED <<target, loc, produced, recv, phase, cfg, loaded>>
    /\ UNCHANGED unitvars

\* the operator stops the first run between two steps, right after a save
Stop ==
    /\ phase = "first"
    /\ pc \in StepNames \cup {"final"}
    /\ pc # "projects"
    /\ pc' = "stopped"
    /\ UNCHANGED <<pidx, phase, cfg, mappings, target, file, loc, exit_status, faults,
                   log, saved, loaded, produced, recv>>
    /\ UNCHANGED unitvars

\* the tool is started again with --resume: a new process, the same source, the
\* target and the mappings file as the first run left them
Resume ==
    /\ phase = "first"
    /\ pc \in Ended
    /\ phase' = "resumed"
    /\ cfg' = [cfg EXCEPT !.resume = TRUE]
    /\ pc' = "start"
    /\ pidx' = 1
    /\ mappings' = NewMappings
    /\ loc' = InitLoc
    /\ exit_status' = -1
    /\ log' = << >>
    /\ produced' = EmptyDict
    /\ recv' = EmptyDict
    /\ UNCHANGED <<target, file, faults, saved, loaded>>
    /\ UNCHANGED unitvars

Next ==
    \/ Start
    \/ MigrateProjects
    \/ MigrateUsers
    \/ SkipUsers
    \/ MigrateGroups
    \/ MigrateCustomFields
    \/ MigrateSharedParameters
    \/ MigrateAttachments
    \/ MigrateMilestones
    \/ MigrateConfigurations
    \/ MigrateEnvironments
    \/ MigrateSharedSteps
    \/ MigrateSuites
    \/ MigrateCases
    \/ MigratePlans
    \/ MigrateRuns
    \/ MigrateResults
    \/ Finish
    \/ Stop
    \/ Resume

Spec == Init /\ [][Next]_vars

(***************************************************************************)
(* One complete run of main in which no remote call fails and nothing      *)
(* interrupts it, as a function of the configuration, the store and the    *)
(* target it starts from: the steps of main applied one after the other.   *)
(***************************************************************************)
RunState(m, t, l) == [m |-> m, t |-> t, loc |-> l]

\* the steps main runs after migrate_projects, each with its project ("-" for the
\* workspace-level ones); no_users is the else-branch of STEP 2
WorkspaceList(c) ==
    IF c.migrate_users
    THEN <<"users", "groups", "custom_fields", "shared_parameters", "attachments">>
    ELSE <<"no_users", "custom_fields", "shared_parameters", "attachments">>

StepList(c, projects) ==
    [i \in 1..(Len(WorkspaceList(c)) + Len(ProjectSteps) * Len(projects)) |->
        IF i <= Len(WorkspaceList(c)) THEN <<WorkspaceList(c)[i], "-">>
        ELSE <<ProjectSteps[((i - Len(WorkspaceList(c)) - 1) % Len(ProjectSteps)) + 1],
               projects[((i - Len(WorkspaceList(c)) - 1) \div Len(ProjectSteps)) + 1]>>]

\* what the migrator of a step does when no remote call fails, on run state s
StepOutcome(step, s, p, ph) ==
    CASE step = "users" -> migrate_users(s.m, s.t, ph, 0)
      [] step = "no_users" ->
            Outcome([s.m EXCEPT !.users = EmptyDict], s.t, EmptyDict, FALSE, TRUE)
      [] step = "groups" -> migrate_groups(s.m, s.t, ph, 0)
      [] step = "custom_fields" -> migrate_custom_fields(s.m, s.t, ph, 0)
      [] step = "shared_parameters" -> migrate_shared_parameters(s.m, s.t, ph, 0)
      [] step = "attachments" ->
            migrate_attachments_workspace(s.m, s.t, ph, s.loc.projects, 0)
      [] step = "milestones" -> migrate_milestones(s.m, s.t, p, ph, 0)
      [] step = "configurations" -> migrate_configurations(s.m, s.t, p, ph, 0)
      [] step = "environments" -> migrate_environments(s.m, s.t, p, ph, 0)
      [] step = "shared_steps" -> migrate_shared_steps(s.m, s.t, p, ph, 0)
      [] step = "suites" -> migrate_suites(s.m, s.t, p, ph, 0)
      [] step = "cases" -> migrate_cases(s.m, s.t, p, ph, 0)
      [] step = "plans" -> migrate_plans(s.m, s.t, p, ph, s.loc.case_mapping, 0)
      [] step = "runs" -> migrate_runs(s.m, s.t, p, ph, 0)
      [] step = "results" -> migrate_results(s.m, s.t, p, ph)

\* the local of main that a step assigns
AssignedBy(step) ==
    CASE step \in {"users", "no_users"} -> "user_mapping"
      [] step = "custom_fields" -> "custom_field_mapping"
      [] step = "shared_parameters" -> "shared_parameter_mapping"
      [] OTHER -> LocalOf(step)

\* one step of main: the migrator, then the assignment of its result (or of {}
\* by the except branch)
ApplyStep(s, step, p, ph) ==
    LET o == StepOutcome(step, s, p, ph)
    IN RunState(o.m, o.t,
                IF AssignedBy(step) = "none" THEN s.loc
                ELSE [s.loc EXCEPT ![AssignedBy(step)] =
                                       IF o.raised THEN EmptyDict ELSE o.ret])

\* the steps from the i-th on, each applied to the state the one before it left
RECURSIVE RunSteps(_, _, _, _)
RunSteps(s, steps, i, ph) ==
    IF i > Len(steps) THEN s
    ELSE CHOOSE r \in {RunSteps(x, steps, i + 1, ph) :
                          x \in {ApplyStep(s, steps[i][1], steps[i][2], ph)}} : TRUE

\* STEP 1 of main, then, unless no project is left, every other step
CompleteRun(c, m0, t0, ph) ==
    CHOOSE r \in {IF s.loc.projects = << >> THEN s
                  ELSE RunSteps(s, StepList(c, s.loc.projects), 1, ph) :
                     s \in {RunState(migrate_projects(m0, t0, ph, 0).m,
                                     migrate_projects(m0, t0, ph, 0).t,
                                     [InitLoc EXCEPT !.projects =
                                         SelectSeq(ProjectSeq,
                                                   LAMBDA x : x \notin c.skip_projects)])}} :
        TRUE

\* the uninterrupted run on a fresh store and the initial target
Uninterrupted(c) == CompleteRun(c, NewMappings, InitTarget, "first")

(***************************************************************************)
(* A single run of the tool: either the first run, or a run with --resume  *)
(* on what a complete first run with the same configuration left behind.   *)
(***************************************************************************)
InitRun ==
    /\ pc = "start"
    /\ pidx = 1
    /\ phase \in {"first", "resumed"}
    /\ cfg \in [migrate_users : BOOLEAN, skip_projects : SkipChoices,
                resume : BOOLEAN]
    /\ cfg.resume = (phase = "resumed")
    /\ mappings = NewMappings
    /\ \E u \in {Uninterrupted(cfg)} :
          /\ target = IF phase = "first" THEN InitTarget ELSE u.t
          /\ saved = IF phase = "first" \/ u.loc.projects = << >> THEN NewMappings ELSE u.m
          /\ file = IF phase = "first" \/ u.loc.projects = << >> THEN NoFile
                    ELSE save_to_file(u.m)
    /\ loc = InitLoc
    /\ exit_status = -1
    /\ faults = 0
    /\ log = << >>
    /\ loaded = NoLoad
    /\ produced = EmptyDict
    /\ recv = EmptyDict
    /\ UnitsIdle

NextRun ==
    \/ Start
    \/ MigrateProjects
    \/ MigrateUsers
    \/ SkipUsers
    \/ MigrateGroups
    \/ MigrateCustomFields
    \/ MigrateSharedParameters
    \/ MigrateAttachments
    \/ MigrateMilestones
    \/ MigrateConfigurations
    \/ MigrateEnvironments
    \/ MigrateSharedSteps
    \/ MigrateSuites
    \/ MigrateCases
    \/ MigratePlans
    \/ MigrateRuns
    \/ MigrateResults
    \/ Finish

SpecRun == InitRun /\ [][NextRun]_vars

\* main is a sequential program: as long as a statement is left to run, it runs
SpecRunLive == SpecRun /\ WF_vars(NextRun)

\* the fold agrees with the orchestrator: a first run that nothing disturbed ends
\* with the store and the target of Uninterrupted
FoldAgrees ==
    (phase = "first" /\ pc = "done" /\ faults = 0)
        => mappings = Uninterrupted(cfg).m /\ target = Uninterrupted(cfg).t

(***************************************************************************)
(* One call of retry_with_backoff(func, max_retries, base_delay).  Each    *)
(* action is one iteration of the loop: the call of func and the branch    *)
(* that handles what it did.  Lines 252-254 (the loop ran out) are reached *)
(* only with max_retries <= 0, which no call site passes.                  *)
(***************************************************************************)
InitRetry ==
    /\ max_retries \in 1..MaxRetries
    /\ base_delay \in 1..MaxDelay
    /\ func \in FuncNames
    /\ attempt = 0
    /\ last_exception = NoException
    /\ ret = Pending
    /\ calls = << >>
    /\ sleeps = << >>
    /\ RetryAlone

\* time.sleep(delay); continue
SleepAndContinue ==
    /\ sleeps' = Append(sleeps, delay(base_delay, attempt))
    /\ attempt' = attempt + 1
    /\ ret' = ret

\* lines 206-207: func returns, the wrapper returns its result
CallReturns ==
    /\ ret = Pending
    /\ attempt < max_retries
    /\ \E v \in Values :
          /\ calls' = Append(calls, Return(v))
          /\ ret' = Returned(v)
    /\ UNCHANGED <<max_retries, base_delay, func, attempt, last_exception, sleeps>>
    /\ UNCHANGED RetryFrame

\* lines 208-243: func raises ApiException
CallRaisesApiException ==
    /\ ret = Pending
    /\ attempt < max_retries
    /\ \E status \in Statuses :
          \E body \in BodiesOf(status) :
              LET e == ApiException(status, body, Len(calls) + 1)
              IN /\ calls' = Append(calls, e)
                 /\ last_exception' = e
                 /\ IF RetryableStatus(status) /\ MoreAttempts(attempt, max_retries)
                    THEN SleepAndContinue
                    ELSE /\ ret' = IF is_attachment_error(e, func) THEN Returned(None)
                                   ELSE Propagated(e)
                         /\ UNCHANGED <<attempt, sleeps>>
    /\ UNCHANGED <<max_retries, base_delay, func>>
    /\ UNCHANGED RetryFrame

\* lines 244-250: func raises any other exception
CallRaisesException ==
    /\ ret = Pending
    /\ attempt < max_retries
    /\ LET e == OtherException(Len(calls) + 1)
       IN /\ calls' = Append(calls, e)
          /\ last_exception' = e
          /\ IF MoreAttempts(attempt, max_retries)
             THEN SleepAndContinue
             ELSE /\ ret' = Propagated(e)
                  /\ UNCHANGED <<attempt, sleeps>>
    /\ UNCHANGED <<max_retries, base_delay, func>>
    /\ UNCHANGED RetryFrame

NextRetry ==
    \/ CallReturns
    \/ CallRaisesApiException
    \/ CallRaisesException

SpecRetry == InitRetry /\ [][NextRetry]_vars

(***************************************************************************)
(* A MigrationStats object and the add_entity calls made on it.            *)
(***************************************************************************)
InitStats == StatsIdle /\ StatsAlone

AddEntity ==
    /\ Len(added) < MaxAdds
    /\ \E t \in StatTypes, sc \in 0..MaxCount, tc \in 0..MaxCount :
          LET st == add_entity(entities_processed, entities_created, t, sc, tc)
          IN /\ entities_processed' = st.processed
             /\ entities_created' = st.created
             /\ added' = Append(added, <<t, sc, tc>>)
    /\ UNCHANGED StatsFrame

NextStats ==
    \/ AddEntity

SpecStats == InitStats /\ [][NextStats]_vars

(***************************************************************************)
(* The attachment hashes of one source case or result on their way into    *)
(* the data sent to the target.                                            *)
(***************************************************************************)
\* migrate_cases, lines 393-400: every key is entered in lower case and as it is
normalized_mapping(m) ==
    [k \in (DOMAIN m) \cup {LowerHash(x) : x \in DOMAIN m} |->
        IF k \in DOMAIN m THEN m[k] ELSE m[CHOOSE x \in DOMAIN m : LowerHash(x) = k]]

\* the loop over an attachments list: the hash of the item as it is written is
\* looked up with attachment_mapping.get; an item that is not found is left out
map_attachments(items, m) ==
    LET found == SelectSeq(items, LAMBDA it : Has(m, it.hash))
    IN [i \in 1..Len(found) |-> m[found[i].hash]]

\* the lookup of replace_full_url and replace_hash: the lower-cased hash, then the
\* keys compared in lower case
attachment_lookup(m, h) ==
    IF Has(m, LowerHash(h)) THEN m[LowerHash(h)]
    ELSE IF \E k \in DOMAIN m : LowerHash(k) = LowerHash(h)
    THEN m[CHOOSE k \in DOMAIN m : LowerHash(k) = LowerHash(h)]
    ELSE NoHash

\* replace_full_url on one match of full_url_pattern
replace_full_url(tok, m, tw) ==
    IF attachment_lookup(m, tok.hash) = NoHash THEN tok
    ELSE Url(IF tw # 0 THEN tw ELSE tok.ws, attachment_lookup(m, tok.hash))

\* the matches of full_url_pattern: its last group (/[^\)]+) runs on to the next
\* closing parenthesis or the end of the text, so a match starts at the first URL
\* after a closing parenthesis and takes the URLs that follow as part of the suffix
FullUrlMatch(text, i) ==
    /\ text[i].kind = "url"
    /\ \A k \in 1..(i - 1) :
          text[k].kind = "url" => \E c \in (k + 1)..(i - 1) : text[c].kind = "close"

\* replace_hash on one match of /attachment/{hash}/
replace_hash(tok, m) ==
    IF tok.kind = "url" /\ attachment_lookup(m, tok.hash) # NoHash
    THEN [tok EXCEPT !.hash = attachment_lookup(m, tok.hash)]
    ELSE tok

\* the two re.sub passes, the second on the result of the first
replace_attachment_hashes_in_text(text, m, tw) ==
    IF text = << >> \/ m = EmptyDict THEN text
    ELSE [i \in 1..Len(text) |->
             replace_hash(IF FullUrlMatch(text, i) THEN replace_full_url(text[i], m, tw)
                          ELSE text[i], m)]

\* transform_case_data: case attachments (243-263), text fields (265-275), step
\* attachments (328-334)
transform_case_data(e, m, tw) ==
    [attachments |-> map_attachments(e.attachments, m),
     step_attachments |-> map_attachments(e.step_attachments, m),
     text |-> replace_attachment_hashes_in_text(e.text, m, tw),
     done |-> TRUE]

\* transform_result_data: result attachments (172-191), comment (193-197)
transform_result_data(e, m, tw) ==
    [attachments |-> map_attachments(e.attachments, m),
     step_attachments |-> << >>,
     text |-> replace_attachment_hashes_in_text(e.text, m, tw),
     done |-> TRUE]

InitTransform ==
    /\ entity \in SourceEntities
    /\ attachment_mapping \in StoredMaps
    /\ target_workspace_hash \in {0, TargetWorkspaceHash}
    /\ transformed = NotYet
    /\ TransformAlone

\* migrate_cases: the normalized map of the project, transform_case_data
TransformCase ==
    /\ entity.kind = "case"
    /\ ~transformed.done
    /\ transformed' = transform_case_data(entity, normalized_mapping(attachment_mapping),
                                          target_workspace_hash)
    /\ UNCHANGED <<entity, attachment_mapping, target_workspace_hash>>
    /\ UNCHANGED TransformFrame

\* migrate_results: the map of the project as stored, transform_result_data
TransformResult ==
    /\ entity.kind = "result"
    /\ ~transformed.done
    /\ transformed' = transform_result_data(entity, attachment_mapping,
                                            target_workspace_hash)
    /\ UNCHANGED <<entity, attachment_mapping, target_workspace_hash>>
    /\ UNCHANGED TransformFrame

NextTransform ==
    \/ TransformCase
    \/ TransformResult

SpecTransform == InitTransform /\ [][NextTransform]_vars

(***************************************************************************)
(* One call of migrate_users with users.migrate and both SCIM tokens set.  *)
(***************************************************************************)
\* the dict that a listing of the target users builds: lower-cased e-mail -> id
ByEmail(users) ==
    [k \in {EmailLower(u.email) : u \in {x \in users : x.email # NoEmail}} |->
        (CHOOSE u \in users : u.email # NoEmail /\ EmailLower(u.email) = k).id]

\* target_users_by_email: the SCIM listing (keyed by userName), or the authors
\* API (keyed by email) when SCIM failed or listed nobody
target_users_by_email(scim, users) ==
    LET scim_users == IF scim.listing = "ok" THEN ByEmail(users) ELSE EmptyDict
    IN IF scim_users = EmptyDict THEN ByEmail(users) ELSE scim_users

\* the id the target gives to the next user created
NewUserId(by_email) ==
    LET ids == {by_email[k] : k \in DOMAIN by_email} \cup {default_user_id}
    IN 1 + CHOOSE n \in ids : \A x \in ids : x <= n

\* user_mapping[int(source_id)] = id, and the uuid mapping when the record has one
MapUser(acc, u, id) ==
    [acc EXCEPT !.user_mapping = Put(@, IntKey(u.id), id),
                !.user_uuid_mapping = IF u.uuid # 0 THEN Put(@, StrKey(u.uuid), id) ELSE @]

\* user_mapping[int(source_id)] = default_user_id
DefaultUser(acc, u) ==
    [acc EXCEPT !.user_mapping = Put(@, IntKey(u.id), default_user_id)]

\* the body of the loop over source_users for the user u
map_source_user(acc, u, config, scim) ==
    LET source_email == EmailLower(u.email)
    IN IF u.id = 0 \/ source_email = NoEmail THEN acc
       ELSE IF Has(acc.by_email, source_email)
       THEN MapUser(acc, u, acc.by_email[source_email])
       ELSE IF config.create
       THEN IF ~u.is_active /\ ~config.inactive THEN DefaultUser(acc, u)
            ELSE IF scim.create = "ok"
            THEN [MapUser(acc, u, NewUserId(acc.by_email))
                     EXCEPT !.created = Append(@, source_email),
                            !.by_email = Put(@, source_email, NewUserId(acc.by_email))]
            ELSE DefaultUser(acc, u)
       ELSE DefaultUser(acc, u)

\* the loop over source_users from position i on
RECURSIVE user_mapping_loop(_, _, _, _, _)
user_mapping_loop(acc, users, i, config, scim) ==
    IF i > Len(users) THEN acc
    ELSE user_mapping_loop(map_source_user(acc, users[i], config, scim),
                           users, i + 1, config, scim)

InitUsersInputs ==
    /\ source_users \in UNION {[1..n -> UNION {SourceUserChoices(i) : i \in 1..MaxUsers}] :
                                  n \in 1..MaxUsers}
    /\ \A i \in DOMAIN source_users : source_users[i] \in SourceUserChoices(i)
    /\ users_config \in [create : BOOLEAN, inactive : BOOLEAN]
    /\ scim_client \in [listing : {"ok", "error"}, create : {"ok", "fails"}]
    /\ target_users \in TargetUserChoices
    /\ user_result = NoUsers

InitUsers == InitUsersInputs /\ UsersAlone

MigrateUsersUnit ==
    /\ ~user_result.done
    /\ user_result' =
          LET acc == user_mapping_loop(
                        [user_mapping |-> EmptyDict, user_uuid_mapping |-> EmptyDict,
                         created |-> << >>,
                         by_email |-> target_users_by_email(scim_client, target_users)],
                        source_users, 1, users_config, scim_client)
          IN [user_mapping |-> acc.user_mapping,
              user_uuid_mapping |-> acc.user_uuid_mapping,
              created |-> acc.created, done |-> TRUE]
    /\ UNCHANGED <<source_users, users_config, scim_client, target_users>>
    /\ UNCHANGED UsersFrame

NextUsers == MigrateUsersUnit

SpecUsers == InitUsers /\ [][NextUsers]_vars

(***************************************************************************)
(* The references of a case, run or defect, rewritten after migrate_users. *)
(***************************************************************************)
\* x.get(id) of a mapping with integer keys, behind `if id:`
MappedRef(mapping, id) == IF id # 0 THEN Get(mapping, IntKey(id), 0) ELSE 0

\* transform_case_data: the author by author_uuid through user_uuid_mapping,
\* else by user id through mappings.get_user_id, which does not exist
case_references(e, maps, result) ==
    IF e.author_uuid # 0
    THEN RefData(Get(result.user_uuid_mapping, StrKey(e.author_uuid), DefaultAuthor),
                 MappedRef(maps.suite_mapping, e.suite_id),
                 MappedRef(maps.milestone_mapping, e.milestone_id))
    ELSE IF e.user_id # 0 THEN RefRaised
    ELSE RefData(DefaultAuthor, MappedRef(maps.suite_mapping, e.suite_id),
                 MappedRef(maps.milestone_mapping, e.milestone_id))

\* the loop body of migrate_runs: the author by user_id through get_user_id
run_references(e, maps) ==
    IF e.user_id # 0 THEN RefRaised
    ELSE RefData(DefaultAuthor, 0, MappedRef(maps.milestone_mapping, e.milestone_id))

\* the loop body of migrate_defects: the author by author_id through get_user_id
defect_references(e, maps) ==
    IF e.user_id # 0 THEN RefRaised
    ELSE RefData(DefaultAuthor, 0, MappedRef(maps.milestone_mapping, e.milestone_id))

\* the entities of kind that name source user j as their author
RefEntities(kind) ==
    {RefEntity(kind, u, a, s, ms) :
        u \in IF kind = "case" THEN 0..MaxUsers ELSE {0}, a \in 0..MaxUsers,
        s \in IF kind = "case" THEN {0, 1} ELSE {0}, ms \in {0, 1}}

\* the author a source entity names (0: none); a case names the same user by
\* author_uuid and by member_id when it carries both
SourceAuthor(e) == IF e.author_uuid # 0 THEN e.author_uuid ELSE e.user_id

InitRefs ==
    /\ InitUsers
    /\ users_config = [create |-> FALSE, inactive |-> FALSE]
    /\ scim_client = [listing |-> "ok", create |-> "ok"]

TransformRefs(kind, out) ==
    /\ user_result.done
    /\ ~ref_out.done
    /\ ref_entity.kind = kind
    /\ ref_out' = out
    /\ UNCHANGED <<ref_entity, ref_maps>>
    /\ UNCHANGED RefsFrame

\* a source entity arrives at its migrator, with the maps of its project
ExtractEntity ==
    /\ user_result.done
    /\ ref_entity.kind = "none"
    /\ \E kind \in {"case", "run", "defect"} :
          ref_entity' \in {e \in RefEntities(kind) :
                              e.author_uuid = 0 \/ e.user_id = 0 \/ e.author_uuid = e.user_id}
    /\ ref_maps' \in RefMapChoices
    /\ UNCHANGED ref_out
    /\ UNCHANGED RefsFrame

TransformCaseRefs == TransformRefs("case", case_references(ref_entity, ref_maps, user_result))
TransformRunRefs == TransformRefs("run", run_references(ref_entity, ref_maps))
TransformDefectRefs == TransformRefs("defect", defect_references(ref_entity, ref_maps))

NextRefs ==
    \/ MigrateUsersUnit
    \/ ExtractEntity
    \/ TransformCaseRefs
    \/ TransformRunRefs
    \/ TransformDefectRefs

SpecRefs == InitRefs /\ [][NextRefs]_vars

(***************************************************************************)
(* One call of migrate_results.  Each action is one remote call (or the    *)
(* step over a run without results).                                       *)
(***************************************************************************)
InitResults ==
    /\ source_results \in [RunIds -> {[n |-> n, skip |-> s] : n \in 0..MaxResults, s \in 0..MaxResults}]
    /\ \A r \in RunIds : source_results[r].skip <= source_results[r].n
    /\ runs_to_complete \in SUBSET RunIds
    /\ rpos = [run |-> 1, chunk |-> 1]
    /\ run_status = [r \in RunIds |-> "open"]
    /\ requests = << >>
    /\ completes = << >>
    /\ ResultsAlone

\* the chunks of the run the loop is at
chunk_list == chunks(results_to_create(source_results[RunSeq[rpos.run]]), ChunkSize)

\* completion as soon as the results of the first run are in
LoopPastFirstRun(pos) == pos.run > 1

\* the loop over run_mapping has ended
LoopEnded(pos) == pos.run > Len(RunSeq)

\* `if not source_results: continue` and `if results_to_create:`
SkipRunWithoutResults ==
    /\ ~LoopEnded(rpos)
    /\ chunk_list = << >>
    /\ rpos' = [run |-> rpos.run + 1, chunk |-> 1]
    /\ UNCHANGED <<source_results, runs_to_complete, run_status, requests, completes>>
    /\ UNCHANGED ResultsFrame

\* one bulk request: created, or refused (an exception that is logged), or, after
\* a 5xx answer, sent again by retry_with_backoff
SubmitChunk ==
    /\ ~LoopEnded(rpos)
    /\ chunk_list # << >>
    /\ \E answer \in {"created", "refused", "retried"} :
          requests' = Append(requests, [run |-> RunSeq[rpos.run],
                                        results |-> chunk_list[rpos.chunk],
                                        answer |-> answer])
    /\ rpos' = IF rpos.chunk < Len(chunk_list)
               THEN [rpos EXCEPT !.chunk = @ + 1]
               ELSE [run |-> rpos.run + 1, chunk |-> 1]
    /\ UNCHANGED <<source_results, runs_to_complete, run_status, completes>>
    /\ UNCHANGED ResultsFrame

\* complete_run for the next run of runs_to_complete, through retry_with_backoff
CompleteTargetRun ==
    /\ LoopEnded(rpos)
    /\ \E r \in runs_to_complete :
          /\ \A j \in DOMAIN completes : completes[j].run # r
          /\ \A q \in runs_to_complete :
                q < r => \E j \in DOMAIN completes : completes[j].run = q
          /\ \E ok \in BOOLEAN :
                /\ completes' = Append(completes, [run |-> r, ok |-> ok])
                /\ run_status' = IF ok THEN [run_status EXCEPT ![r] = "completed"]
                                 ELSE run_status
    /\ UNCHANGED <<source_results, runs_to_complete, rpos, requests>>
    /\ UNCHANGED ResultsFrame

NextResults ==
    \/ SkipRunWithoutResults
    \/ SubmitChunk
    \/ CompleteTargetRun

SpecResults == InitResults /\ [][NextResults]_vars

(***************************************************************************)
(* One call of an extractor.  Each action is one iteration of its loop.    *)
(***************************************************************************)
InitPages ==
    /\ extractor \in {"projects", "results", "runs"}
    /\ served \in 0..MaxServed
    /\ only_projects \in {<< >>, <<1>>, <<2, MaxServed>>}
    /\ extractor # "projects" => only_projects = << >>
    /\ offset = 0
    /\ extracted = << >>
    /\ extract_done = FALSE
    /\ fetched = << >>
    /\ PagesAlone

\* the request, and the branch taken on its answer
FetchPage ==
    /\ ~extract_done
    /\ \E p \in {page(served, offset, PageLimit)} :
          /\ fetched' = Append(fetched, [offset |-> offset, count |-> Len(p)])
          /\ extracted' = extracted \o kept(extractor, only_projects, p)
          /\ extract_done' = (p = << >> \/ last_page(extractor, served, offset, PageLimit, p))
          /\ offset' = IF extract_done' THEN offset ELSE next_offset(offset, PageLimit)
    /\ UNCHANGED <<extractor, served, only_projects>>
    /\ UNCHANGED PagesFrame

NextPages == FetchPage

SpecPages == InitPages /\ [][NextPages]_vars

(***************************************************************************)
(* One call of create_cases_bulk: a single requests.post.                  *)
(***************************************************************************)
InitBulk ==
    /\ bulk_answers \in [1..DefaultMaxRetries -> BulkStatuses]
    /\ bulk_posts = 0
    /\ created_ids = "pending"
    /\ BulkAlone

\* status 200: the ids of the answer; any other status, or an exception of
\* requests.post: logged, and None is returned
CreateCasesBulk ==
    /\ created_ids = "pending"
    /\ bulk_posts' = bulk_posts + 1
    /\ created_ids' = IF bulk_answers[bulk_posts + 1] = 200 THEN "ids" ELSE "None"
    /\ UNCHANGED bulk_answers
    /\ UNCHANGED BulkFrame

NextBulk == CreateCasesBulk

SpecBulk == InitBulk /\ [][NextBulk]_vars

(***************************************************************************)
(* Runs of the project migration on one target.                            *)
(***************************************************************************)
InitProjects ==
    /\ target_projects \in [ProjectCodes -> {"absent", "held"}]
    /\ source_projects = ProjectSeq
    /\ project_run = 1
    /\ projects_store = EmptyDict
    /\ project_call = NoProjectCall
    /\ ProjectsAlone

\* create_project for the next source project: the probe; unless it found the
\* project, the create call; after "already exists" the second probe.  Another
\* exception of the create call is re-raised and ends migrate_projects
CreateProject ==
    /\ source_projects # << >>
    /\ \E code \in {Head(source_projects)} :
       \E held \in {target_projects[Head(source_projects)] # "absent"} :
       \E probe \in ProbeAnswers(held) :
         IF probe_found(probe)
         THEN /\ projects_store' = Put(projects_store, code, code)
              /\ project_call' = ProjectCall(code, held, probe, "none", "none", "dict")
              /\ source_projects' = Tail(source_projects)
              /\ UNCHANGED target_projects
         ELSE \E create \in CreateAnswers(held) :
              \E second_probe \in (IF create = "already_exists"
                                   THEN {"found", "error"} ELSE {"none"}) :
                /\ target_projects' = IF create = "created"
                                      THEN [target_projects EXCEPT ![code] = "created"]
                                      ELSE target_projects
                /\ projects_store' = IF create = "created" \/ second_probe = "found"
                                     THEN Put(projects_store, code, code)
                                     ELSE projects_store
                /\ project_call' =
                       ProjectCall(code, held, probe, create, second_probe,
                                   CASE create = "error" -> "raised"
                                     [] create = "created" \/ second_probe = "found" -> "dict"
                                     [] OTHER -> "None")
                /\ source_projects' = IF create = "error" THEN << >>
                                      ELSE Tail(source_projects)
    /\ UNCHANGED project_run
    /\ UNCHANGED ProjectsFrame

\* the tool is run again on the same target: a new process, whose store is empty
\* or, with --resume, the one the last run left
RunProjectsAgain ==
    /\ source_projects = << >>
    /\ project_run < MaxProjectRuns
    /\ project_run' = project_run + 1
    /\ source_projects' = ProjectSeq
    /\ \E resume \in BOOLEAN :
          projects_store' = IF resume THEN projects_store ELSE EmptyDict
    /\ project_call' = NoProjectCall
    /\ UNCHANGED target_projects
    /\ UNCHANGED ProjectsFrame

NextProjects ==
    \/ CreateProject
    \/ RunProjectsAgain

SpecProjects == InitProjects /\ [][NextProjects]_vars

(***************************************************************************)
(* One invocation of migrate_custom_fields.                                *)
(***************************************************************************)
\* the source holds MaxFields fields (ids 1, 2, ...); the target holds none, or
\* fields with some of the titles
InitFields ==
    /\ source_fields \in {[i \in 1..MaxFields |-> Field(i, t[i])] :
                             t \in [1..MaxFields -> Titles]}
    /\ target_fields \in {{}, {Field(1, <<"priority", "upper">>)},
                          {Field(1, <<"browser", "lower">>)},
                          {Field(1, <<"priority", "upper">>), Field(2, <<"browser", "padded">>)}}
    /\ existing_fields = NotFetched
    /\ field_store = EmptyDict
    /\ field_creates = << >>
    /\ FieldsAlone

\* get_existing_custom_fields: the fields of the target by normalized title (of
\* two with the same one, an arbitrary one stays); an exception of the listing is
\* logged and the dict stays empty
GetExistingCustomFields ==
    /\ ~existing_fields.fetched
    /\ \E listing \in {"ok", "error"} :
          existing_fields' =
              [fetched |-> TRUE,
               by_title |->
                  IF listing = "error" THEN EmptyDict
                  ELSE [n \in {NormalizedTitle(f.title) : f \in target_fields} |->
                           (CHOOSE f \in target_fields : NormalizedTitle(f.title) = n).id]]
    /\ UNCHANGED <<source_fields, target_fields, field_store, field_creates>>
    /\ UNCHANGED FieldsFrame

\* create_custom_field for the next source field: a normalized title found in
\* existing_fields maps the field; otherwise the create call, whose exception
\* ends the invocation.  existing_fields is not written
CreateCustomField ==
    /\ existing_fields.fetched
    /\ source_fields # << >>
    /\ \E f \in {Head(source_fields)} :
         IF Has(existing_fields.by_title, NormalizedTitle(f.title))
         THEN /\ field_store' = Put(field_store, IntKey(f.id),
                                    existing_fields.by_title[NormalizedTitle(f.title)])
              /\ source_fields' = Tail(source_fields)
              /\ UNCHANGED <<target_fields, field_creates>>
         ELSE \E answer \in {"created", "raises"} :
                /\ field_creates' = Append(field_creates,
                       [title |-> f.title,
                        same |-> {g.id : g \in SameTitle(target_fields, f.title)}])
                /\ IF answer = "created"
                   THEN /\ target_fields' = target_fields \cup
                               {Field(Cardinality(target_fields) + 1, f.title)}
                        /\ field_store' = Put(field_store, IntKey(f.id),
                                              Cardinality(target_fields) + 1)
                        /\ source_fields' = Tail(source_fields)
                   ELSE /\ source_fields' = << >>
                        /\ UNCHANGED <<target_fields, field_store>>
    /\ UNCHANGED existing_fields
    /\ UNCHANGED FieldsFrame

NextFields ==
    \/ GetExistingCustomFields
    \/ CreateCustomField

SpecFields == InitFields /\ [][NextFields]_vars

(***************************************************************************)
(* One invocation of migrate_attachments_workspace, from line 282 on.      *)
(***************************************************************************)
\* every hash is referenced by the first project or by all projects; the store is
\* empty or holds, from an earlier run, hash 1 for the first project; the scan has
\* found some of the hashes the target holds
InitAttachments ==
    /\ \E everywhere \in SUBSET AttachmentHashes :
          all_attachments = [code \in ProjectCodes |->
                                IF code = ProjectSeq[1] THEN AttachmentHashes ELSE everywhere]
    /\ target_attachments \in SUBSET AttachmentHashes
    /\ existing_attachments \in SUBSET target_attachments
    /\ attachments_store \in {EmptyDict,
                              [code \in {ProjectSeq[1]} |-> [h \in {1} |-> UploadedHash(1)]]}
    /\ global_attachment_set = AttachmentHashes
    /\ global_attachment_mapping = EmptyDict
    /\ uploads = << >>
    /\ attachments_recorded = FALSE
    /\ AttachmentsAlone

\* the body of the loop over global_attachment_set for one hash (a set is visited
\* in no particular order): copy from a project's map, or map to itself when the
\* scan or a probe found it, or download and upload
MigrateAttachmentHash ==
    /\ ~attachments_recorded
    /\ \E h \in global_attachment_set :
         /\ global_attachment_set' = global_attachment_set \ {h}
         /\ IF already_mapped(attachments_store, h)
            THEN /\ global_attachment_mapping' =
                        Put(global_attachment_mapping, h,
                            attachments_store[CHOOSE code \in DOMAIN attachments_store :
                                                 Has(attachments_store[code], h)][h])
                 /\ UNCHANGED uploads
            ELSE IF h \in existing_attachments
            THEN /\ global_attachment_mapping' = Put(global_attachment_mapping, h, SameHash(h))
                 /\ UNCHANGED uploads
            ELSE \E probes \in ProbeResults(h \in target_attachments) :
                   IF probes = "found"
                   THEN /\ global_attachment_mapping' =
                               Put(global_attachment_mapping, h, SameHash(h))
                        /\ UNCHANGED uploads
                   ELSE \E outcome \in {"no_content", "uploaded", "failed"} :
                          /\ uploads' = IF outcome = "no_content" THEN uploads
                                        ELSE Append(uploads,
                                                 [hash |-> h,
                                                  mapped |-> \E code \in DOMAIN attachments_store :
                                                                 Has(attachments_store[code], h),
                                                  held |-> h \in target_attachments,
                                                  probes |-> probes])
                          /\ global_attachment_mapping' =
                                 IF outcome = "uploaded"
                                 THEN Put(global_attachment_mapping, h, UploadedHash(h))
                                 ELSE global_attachment_mapping
    /\ UNCHANGED <<all_attachments, target_attachments, existing_attachments,
                   attachments_store, attachments_recorded>>
    /\ UNCHANGED AttachmentsFrame

\* lines 361-374: every project's map gets the mapped hashes that it references
RecordAttachmentMappings ==
    /\ ~attachments_recorded
    /\ global_attachment_set = {}
    /\ attachments_recorded' = TRUE
    /\ attachments_store' =
          [code \in (DOMAIN attachments_store) \cup ProjectCodes |->
              IF code \in ProjectCodes
              THEN Update(Get(attachments_store, code, EmptyDict),
                          [h \in all_attachments[code] \cap DOMAIN global_attachment_mapping |->
                              global_attachment_mapping[h]])
              ELSE attachments_store[code]]
    /\ UNCHANGED <<all_attachments, target_attachments, existing_attachments,
                   global_attachment_set, global_attachment_mapping, uploads>>
    /\ UNCHANGED AttachmentsFrame

NextAttachments ==
    \/ MigrateAttachmentHash
    \/ RecordAttachmentMappings

SpecAttachments == InitAttachments /\ [][NextAttachments]_vars

(***************************************************************************)
(* The workspace hash of the store over one run.                           *)
(***************************************************************************)
\* MigrationMappings(): None; load_from_file reads a member that save_to_file
\* never writes, so a loaded store has None as well
InitHash ==
    /\ workspace_hash = NewMappings.target_workspace_hash
    /\ first_url_hash = 0
    /\ upload_count = 0
    /\ rewrite = NoRewrite
    /\ HashAlone

\* upload_attachment returning normally with a response
UploadAttachment ==
    /\ upload_count < MaxUploads
    /\ \E url_hash \in UrlWorkspaceHashes :
          /\ workspace_hash' = workspace_hash_after_upload(workspace_hash, url_hash)
          /\ first_url_hash' = IF first_url_hash = 0 THEN url_hash ELSE first_url_hash
    /\ upload_count' = upload_count + 1
    /\ UNCHANGED rewrite
    /\ UNCHANGED HashFrame

\* the markdown texts rewritten: one image link
RewriteTexts == {Markdown(<<h>>) : h \in SourceHashes}

\* transform_case_data in migrate_cases, with the store's hash at that moment
RewriteCase ==
    /\ \E text \in RewriteTexts, m \in StoredMaps :
          rewrite' = [kind |-> "case", text |-> text, map |-> m, first |-> first_url_hash,
                      out |-> transform_case_data(SourceEntity("case", << >>, << >>, text),
                                                  normalized_mapping(m),
                                                  workspace_hash).text]
    /\ UNCHANGED <<workspace_hash, first_url_hash, upload_count>>
    /\ UNCHANGED HashFrame

\* transform_result_data in migrate_results, with the store's hash at that moment
RewriteResult ==
    /\ \E text \in RewriteTexts, m \in StoredMaps :
          rewrite' = [kind |-> "result", text |-> text, map |-> m, first |-> first_url_hash,
                      out |-> transform_result_data(SourceEntity("result", << >>, << >>, text),
                                                    m, workspace_hash).text]
    /\ UNCHANGED <<workspace_hash, first_url_hash, upload_count>>
    /\ UNCHANGED HashFrame

NextHash ==
    \/ UploadAttachment
    \/ RewriteCase
    \/ RewriteResult

SpecHash == InitHash /\ [][NextHash]_vars

(***************************************************************************)
(* migrate_runs, project after project.                                    *)
(***************************************************************************)
InitCompletion ==
    /\ ended_runs \in [ProjectCodes -> EndedFlags]
    /\ runs_invoked = 0
    /\ function_attr = NoAttr
    /\ mappings_runs_to_complete = EmptyDict
    /\ ended_created = [p \in ProjectCodes |-> EmptyDict]
    /\ runs_raised = {}
    /\ CompletionAlone

\* lines 227-238 for the source runs 1..n of project p, each created with the
\* target run id equal to its position: the entries added to the attribute
ended_entries(p, n) ==
    [id \in {i \in 1..n : ended_runs[p][i]} |-> p]

\* one invocation for the next project of main's loop.  raise_at = 0: every
\* create_run returns; raise_at = k: the k-th source run makes the loop raise
\* (extract_run_cases or create_run, after the retries), the runs before it
\* having been created
MigrateRunsOfProject ==
    /\ runs_invoked < NumProjects
    /\ \E p \in {ProjectSeq[runs_invoked + 1]} :
       \E raise_at \in 0..Len(ended_runs[p]) :
       \E found \in {attr_found(function_attr)} :
       \E made \in {ended_entries(p, IF raise_at = 0 THEN Len(ended_runs[p])
                                     ELSE raise_at - 1)} :
       \E attr \in {IF DOMAIN made = {} THEN found
                    ELSE [has |-> TRUE, runs |-> Update(found.runs, made)]} :
          /\ ended_created' = [ended_created EXCEPT ![p] = made]
          /\ IF raise_at # 0
             THEN /\ function_attr' = attr
                  /\ runs_raised' = runs_raised \cup {p}
                  /\ UNCHANGED mappings_runs_to_complete
             ELSE /\ function_attr' = NoAttr
                  /\ mappings_runs_to_complete' =
                         IF attr.has THEN Put(mappings_runs_to_complete, p, attr.runs)
                         ELSE mappings_runs_to_complete
                  /\ UNCHANGED runs_raised
    /\ runs_invoked' = runs_invoked + 1
    /\ UNCHANGED ended_runs
    /\ UNCHANGED CompletionFrame

NextCompletion == MigrateRunsOfProject

SpecCompletion == InitCompletion /\ [][NextCompletion]_vars

(***************************************************************************)
(* migrate_suites: the walk over the forest of source suites.              *)
(***************************************************************************)
\* lines 96-103: the extraction, an empty suite_mapping, the roots to be walked
InitSuites ==
    /\ suite_parent \in Forests
    /\ suite_calls = SuiteCalls(parent_child_map(suite_parent, 0), 0)
    /\ suites_mapped = EmptyDict
    /\ suite_creates = << >>
    /\ suites_store = EmptyDict
    /\ suites_done = FALSE
    /\ SuitesAlone

\* the id the target gives to the next suite it creates
NewSuiteId == NumSuites + 1 + Cardinality({i \in DOMAIN suite_creates :
                                              suite_creates[i].answer = "created"})

\* one call of migrate_suite_recursive up to its recursive calls, which are the
\* next calls made; an exception is logged and the call returns
MigrateSuiteRecursive ==
    /\ suite_calls # << >>
    /\ \E call \in {Head(suite_calls)} : \E answer \in CreateSuiteAnswers :
       \E target_suite_id \in {IF answer = "created" THEN NewSuiteId ELSE 0} :
          /\ suite_creates' = Append(suite_creates,
                                     [suite |-> call.suite,
                                      parent_id |-> call.parent_target_id,
                                      answer |-> answer, id |-> target_suite_id])
          /\ IF target_suite_id # 0
             THEN /\ suites_mapped' = Put(suites_mapped, call.suite, target_suite_id)
                  /\ suite_calls' =
                         SuiteCalls(parent_child_map(suite_parent, call.suite),
                                    parent_target_id_of_children(target_suite_id,
                                                                 call.parent_target_id))
                         \o Tail(suite_calls)
             ELSE /\ suites_mapped' = suites_mapped
                  /\ suite_calls' = Tail(suite_calls)
    /\ UNCHANGED <<suite_parent, suites_store, suites_done>>
    /\ UNCHANGED SuitesFrame

\* lines 110-113: the mapping goes into the store and is returned
RecordSuiteMapping ==
    /\ suite_calls = << >>
    /\ ~suites_done
    /\ suites_store' = Update(suites_store, suites_mapped)
    /\ suites_done' = TRUE
    /\ UNCHANGED <<suite_parent, suite_calls, suites_mapped, suite_creates>>
    /\ UNCHANGED SuitesFrame

NextSuites ==
    \/ MigrateSuiteRecursive
    \/ RecordSuiteMapping

SpecSuites == InitSuites /\ [][NextSuites]_vars

\* ---- properties ----
(***************************************************************************)
(* Properties.                                                             *)
(***************************************************************************)
\* the documents of two stores agree: every per-entity-type map, key for key and
\* value for value, keys compared as the file spells them
SameMaps(m1, m2) == mappings_dict(m1) = mappings_dict(m2)

\* C1: a run stopped right after a step (store saved) and run again with --resume,
\* nothing failing in either run, ends with the same final store as one
\* uninterrupted run on the same source and an initially identical target.
C1_ResumeEqualsUninterrupted ==
    (phase = "resumed" /\ pc = "done" /\ faults = 0 /\ loc.projects # << >>)
        => SameMaps(mappings, Uninterrupted(cfg).m)

\* the key of source entity e of type ty is in the map of its type in store m
KeyInStore(m, ty, e) ==
    IF ty = "projects" THEN Has(m.projects, ProjectSeq[e.src])
    ELSE IF ty \in {"users", "groups", "custom_fields", "shared_parameters"}
    THEN Has(m[ty], IntKey(e.src)) \/ Has(m[ty], StrKey(e.src))
    ELSE /\ Has(m[ty], e.p)
         /\ Has(m[ty][e.p], IntKey(e.src)) \/ Has(m[ty][e.p], StrKey(e.src))

\* C2: on a resumed run no migrator creates a target entity for a source entity
\* whose key is already in that entity type's map of the loaded store.
C2_NoCreateForLoadedKey ==
    loaded.done =>
        \A ty \in EntityTypes : \A e \in target[ty] :
            e.phase = "resumed" => ~KeyInStore(loaded.got, ty, e)

\* C3: for every numeric-keyed map, after save_to_file and load_from_file a lookup
\* with the original integer source id finds the saved target id, in the store
\* and in the migrators' already-mapped check (Mapped).
C3_IntegerLookupAfterReload ==
    loaded.done =>
        /\ \A f \in NumericFields \cap FlatFields : \A k \in DOMAIN loaded.from[f] :
              k[1] = "int" => /\ Has(loaded.got[f], k)
                              /\ loaded.got[f][k] = loaded.from[f][k]
        /\ \A f \in NumericFields \cap PerProjectFields : \A p \in DOMAIN loaded.from[f] :
              \A k \in DOMAIN loaded.from[f][p] :
                  k[1] = "int" => /\ Mapped(loaded.got, f, p, k)
                                  /\ loaded.got[f][p][k] = loaded.from[f][p][k]

\* C4: save_to_file followed by load_from_file into a fresh store restores the
\* whole store: every map (groups included) and the fields target_workspace_hash
\* and user_uuid_mapping equal those of the store that was saved.
C4_FullRoundTrip ==
    loaded.done =>
        /\ SameMaps(loaded.got, loaded.from)
        /\ loaded.got.groups = loaded.from.groups
        /\ loaded.got.user_uuid_mapping = loaded.from.user_uuid_mapping
        /\ loaded.got.target_workspace_hash = loaded.from.target_workspace_hash

\* C5: every migrator invocation is immediately preceded by a save and immediately
\* followed by one (begun at least), whether the migrator returned or raised.
C5_SaveAroundEveryInvocation ==
    \A i \in 1..Len(log) :
        log[i][1] = "invoke" =>
            /\ i > 1
            /\ log[i - 1] = Save
            /\ \E j \in (i + 1)..Len(log) :
                  /\ log[j] \in {Save, SaveCut}
                  /\ \A k \in (i + 1)..(j - 1) :
                        log[k][1] \in {"raised", "interrupt", "fallback_users"}

\* the position of a step in the step list of the run
PositionOf(step, p) ==
    CHOOSE k \in 1..Len(StepList(cfg, loc.projects)) :
        StepList(cfg, loc.projects)[k] = <<step, p>>

\* C6: when an entity migrator (any but migrate_projects) raised and the process
\* has ended without interrupt, every later step of the step list was invoked
\* after it.
C6_RunContinuesAfterException ==
    \A j \in 1..Len(log) :
        (/\ log[j][1] = "raised"
         /\ log[j][2] # "projects"
         /\ pc \in {"done", "exit"}
         /\ \A i \in 1..Len(log) : log[i] # Interrupt)
        => \A k \in (PositionOf(log[j][2], log[j][3]) + 1)..Len(StepList(cfg, loc.projects)) :
              \E i \in (j + 1)..Len(log) :
                  log[i] = Invoke(StepList(cfg, loc.projects)[k][1],
                                  StepList(cfg, loc.projects)[k][2])

\* C7: an interrupt or unhandled exception after the store was created ends the
\* process with the store saved and then status 1; a completed run has status 0.
C7_SavedThenExitOne ==
    /\ pc = "exit" => /\ exit_status = 1
                      /\ log # << >>
                      /\ log[Len(log)] = Save
                      /\ file = save_to_file(mappings)
    /\ (\E i \in 1..Len(log) : log[i] \in {Interrupt, Unhandled}) => pc \in {"exit", "killed"}
    /\ pc = "done" => exit_status = 0

\* C8: every way main ends (completion, error, interrupt, the early return when no
\* project is left) saves the store before the process ends.
C8_EveryEndSaves ==
    pc \in {"done", "exit"} =>
        /\ log # << >>
        /\ log[Len(log)] = Save
        /\ file = save_to_file(mappings)

\* C9: whenever the process can stop, the file holds one complete snapshot that
\* load_from_file can read (the last checkpoint), never a cut document.
C9_FileAlwaysComplete ==
    /\ file.kind # "partial"
    /\ file.kind = "json" => file = save_to_file(saved)

\* what migrate_cases depends on, for project p: step, project, parameter
CaseDependencies(p) ==
    {<<"custom_fields", "-", "custom_field_mapping">>,
     <<"shared_parameters", "-", "shared_parameter_mapping">>,
     <<"milestones", p, "milestone_mapping">>,
     <<"shared_steps", p, "shared_step_mapping">>,
     <<"suites", p, "suite_mapping">>}

\* C10: migrate_cases for a project is invoked only after the custom-field and
\* shared-parameter migrators and the milestone, shared-step and suite migrators of
\* that project, and receives the mappings those invocations produced.
C10_CasesAfterDependencies ==
    \A i \in 1..Len(log) :
        (log[i][1] = "invoke" /\ log[i][2] = "cases") =>
            \A d \in CaseDependencies(log[i][3]) :
                /\ \E j \in 1..(i - 1) : log[j] = Invoke(d[1], d[2])
                /\ Has(recv, log[i][3])
                /\ Has(produced, <<d[1], d[2]>>)
                /\ recv[log[i][3]][d[3]] = produced[<<d[1], d[2]>>]

\* migrate_cases has run for the second project of a resumed run and received
\* non-empty mappings from each of the five migrators
C10_Witness ==
    /\ phase = "resumed"
    /\ Has(recv, ProjectSeq[2])
    /\ \A d \in CaseDependencies(ProjectSeq[2]) : recv[ProjectSeq[2]][d[3]] # EmptyDict

\* the migrators whose mappings a step needs, each with its scope
Dependencies(step, p) ==
    (IF step = "projects" THEN {} ELSE {<<"projects", "-">>})
    \cup (CASE step = "groups" -> {<<"users", "-">>}
            [] step = "plans" -> {<<"cases", p>>}
            [] step = "runs" -> {<<"cases", p>>, <<"configurations", p>>,
                                 <<"milestones", p>>, <<"plans", p>>}
            [] step = "results" -> {<<"runs", p>>}
            [] OTHER -> {})

\* C11: every migrator is invoked after the migrators it depends on (projects
\* before everything; users before groups; attachments after projects; per project
\* cases before plans, cases, configurations, milestones and plans before runs, runs
\* before results), and each of those had returned or failed by then.
C11_InvocationOrder ==
    \A i \in 1..Len(log) :
        log[i][1] = "invoke" =>
            \A d \in Dependencies(log[i][2], log[i][3]) :
                \E j \in 1..(i - 1) :
                    /\ log[j] = Invoke(d[1], d[2])
                    /\ log[j + 1] # Interrupt

\* the results migrator was invoked for the last project, in a run that also
\* migrated the groups
C11_Witness ==
    /\ \E i \in 1..Len(log) : log[i] = Invoke("results", ProjectSeq[NumProjects])
    /\ \E i \in 1..Len(log) : log[i] = Invoke("groups", "-")

\* the wrapper has ended and every call of func raised ApiException with status s
AlwaysStatus(s) ==
    /\ ret.kind \in {"returned", "raised"}
    /\ \A i \in 1..Len(calls) : calls[i].kind = "api" /\ calls[i].status = s

\* C12: when every call of func raises ApiException with status 500 (or every call
\* raises it with status 429), func is called exactly max_retries times and the
\* wrapper then raises that exception.
C12_RetryCeiling ==
    /\ Len(calls) <= max_retries
    /\ \A s \in {429, 500} :
          AlwaysStatus(s) =>
              /\ Len(calls) = max_retries
              /\ ret.kind = "raised"
              /\ ret.exc = calls[max_retries]

\* func raised 429 on each of the three calls of a default wrapper, which raised it
C12_Witness ==
    /\ AlwaysStatus(429)
    /\ max_retries = DefaultMaxRetries
    /\ Len(calls) = DefaultMaxRetries
    /\ ret.kind = "raised"

\* the 404 that the wrapper takes for a missing attachment
AttachmentNotFound(e) ==
    /\ e.kind = "api"
    /\ e.status = 404
    /\ Mentions(e.body.text) \/ Mentions(func)

\* a 4xx that is neither a rate limit nor a missing attachment
Terminal4xx(e) ==
    /\ e.kind = "api"
    /\ e.status \in 400..499
    /\ e.status # 429
    /\ ~AttachmentNotFound(e)

\* C13: an ApiException with a 4xx status other than 429 that is not a 404
\* attachment error ends the wrapper at once: no sleep and no call follows it and
\* it is re-raised; raised by the first call, func was called once and nothing slept.
C13_TerminalStatusRaisedAtOnce ==
    \A i \in 1..Len(calls) :
        Terminal4xx(calls[i]) =>
            /\ Len(calls) = i
            /\ Len(sleeps) = i - 1
            /\ ret.kind = "raised"
            /\ ret.exc = calls[i]

\* the first call raised a plain 400, which the wrapper raised
C13_Witness ==
    /\ Len(calls) = 1
    /\ calls[1].kind = "api" /\ calls[1].status = 400 /\ calls[1].body = NoBody
    /\ sleeps = << >>
    /\ ret.kind = "raised"

\* C14: a 404 whose body mentions 'attachment', or raised by a function whose name
\* contains 'attachment', makes the wrapper return None with no further call (a
\* single call when it is the first); a 404 with neither is re-raised; an
\* exception of any other status is never turned into a None result.
C14_OnlyAttachment404Suppressed ==
    /\ \A i \in 1..Len(calls) :
          AttachmentNotFound(calls[i]) =>
              /\ Len(calls) = i
              /\ Len(sleeps) = i - 1
              /\ ret.kind = "returned" /\ ret.value = None
    /\ \A i \in 1..Len(calls) :
          (calls[i].kind = "api" /\ calls[i].status = 404 /\ ~AttachmentNotFound(calls[i]))
              => ret.kind = "raised" /\ ret.exc = calls[i]
    /\ (ret.kind = "returned" /\ calls[Len(calls)].kind # "return")
          => calls[Len(calls)].status = 404

\* a function without 'attachment' in its name raised a 404 whose JSON body says
\* "Attachment not found" on its only call, and the wrapper returned None
C14_Witness ==
    /\ Len(calls) = 1
    /\ calls[1].kind = "api" /\ calls[1].status = 404 /\ calls[1].body = AttachmentBody
    /\ ~Mentions(func)
    /\ ret.kind = "returned" /\ ret.value = None

\* the wrapper has ended and every call of func raised a non-ApiException
AlwaysOther ==
    /\ ret.kind \in {"returned", "raised"}
    /\ \A i \in 1..Len(calls) : calls[i].kind = "other"

\* C15: when every call of func raises an exception that is not an ApiException,
\* func is called exactly max_retries times and the exception that reaches the
\* caller is the one of the last call.
C15_OtherExceptionRetried ==
    AlwaysOther =>
        /\ Len(calls) = max_retries
        /\ ret.kind = "raised"
        /\ ret.exc = calls[max_retries]
        /\ ret.exc.id = max_retries

\* three network errors in a row with the default max_retries, the third raised
C15_Witness ==
    /\ AlwaysOther
    /\ max_retries = DefaultMaxRetries
    /\ ret.kind = "raised"
    /\ ret.exc.id = DefaultMaxRetries

\* retried by the wrapper: 429, status >= 500, an exception that is not HTTP
Transient(e) ==
    \/ e.kind = "other"
    \/ e.kind = "api" /\ (e.status = 429 \/ e.status >= 500)

\* C16: when func fails with retryable errors fewer than max_retries times in a row
\* and then returns, the wrapper returns the result of that call, None included,
\* and calls func no more; a retryable error reaches the caller only when
\* max_retries calls have been made.
C16_TransientThenResult ==
    /\ \A i \in 1..Len(calls) :
          (calls[i].kind = "return" /\ \A j \in 1..(i - 1) : Transient(calls[j])) =>
              /\ Len(calls) = i
              /\ ret.kind = "returned"
              /\ ret.value = calls[i].value
    /\ (ret.kind = "raised" /\ Transient(ret.exc)) => Len(calls) = max_retries

\* a 500, then a network error, then a call that returned None: the wrapper
\* returned None
C16_Witness ==
    /\ Len(calls) = 3
    /\ calls[1].kind = "api" /\ calls[1].status = 500
    /\ calls[2].kind = "other"
    /\ calls[3].kind = "return" /\ calls[3].value = None
    /\ ret.kind = "returned" /\ ret.value = None

\* C17: the sleep that follows failed attempt k (from 0) lasts base_delay * 2^k;
\* there is one sleep between two consecutive attempts and none after the last
\* one; with max_retries 3 and base_delay 1 the sleeps are 1 and then 2.
C17_BackoffDelays ==
    /\ \A k \in 1..Len(sleeps) : sleeps[k] = base_delay * 2^(k - 1)
    /\ Len(sleeps) = IF ret.kind = "pending" THEN Len(calls) ELSE Len(calls) - 1
    /\ Len(sleeps) <= max_retries - 1
    /\ (max_retries = DefaultMaxRetries /\ base_delay = DefaultBaseDelay
            /\ Len(calls) = DefaultMaxRetries)
          => sleeps = <<1, 2>>

\* a default wrapper ended after three calls and slept 1 and 2 in between
C17_Witness ==
    /\ max_retries = DefaultMaxRetries
    /\ base_delay = DefaultBaseDelay
    /\ Len(calls) = DefaultMaxRetries
    /\ ret.kind = "raised"
    /\ sleeps = <<1, 2>>

\* the sum of field k of the first n add_entity calls made for type t
RECURSIVE SumAdded(_, _, _)
SumAdded(t, k, n) ==
    IF n = 0 THEN 0
    ELSE SumAdded(t, k, n - 1) + (IF added[n][1] = t THEN added[n][k] ELSE 0)

\* C18: after any sequence of add_entity calls, the processed and created counters
\* of each entity type are the sums of the counts of the calls made for that type
\* (no counter exists for a type without a call), so a call neither overwrites the
\* earlier counts of its type nor changes another type's counters.
C18_StatsAccumulate ==
    \A t \in StatTypes :
        IF \E i \in 1..Len(added) : added[i][1] = t
        THEN /\ Has(entities_processed, t) /\ Has(entities_created, t)
             /\ entities_processed[t] = SumAdded(t, 2, Len(added))
             /\ entities_created[t] = SumAdded(t, 3, Len(added))
        ELSE ~Has(entities_processed, t) /\ ~Has(entities_created, t)

\* two calls with non-zero counts for one type, with a call for another type in
\* between
C18_Witness ==
    /\ Len(added) = 3
    /\ added[1][1] = added[3][1] /\ added[2][1] # added[1][1]
    /\ \A i \in 1..3 : added[i][2] > 0 /\ added[i][3] > 0
    /\ entities_processed[added[1][1]] = added[1][2] + added[3][2]

\* the project's attachment map holds a key equal to h up to letter case, and the
\* target hash stored under it
Resolvable(h) == \E k \in DOMAIN attachment_mapping : LowerHash(k) = LowerHash(h)
TargetOf(h) ==
    attachment_mapping[CHOOSE k \in DOMAIN attachment_mapping : LowerHash(k) = LowerHash(h)]
ResolvedList(items) ==
    LET found == SelectSeq(items, LAMBDA it : Resolvable(it.hash))
    IN [i \in 1..Len(found) |-> TargetOf(found[i].hash)]

\* C19: every attachment hash a source case or result refers to (attachments list,
\* attachments of a step, URL in a text field) comes out as the target hash stored
\* for it whenever the project's map has a key equal to it up to letter case.
C19_HashResolvedUpToCase ==
    transformed.done =>
        /\ transformed.attachments = ResolvedList(entity.attachments)
        /\ entity.kind = "case" =>
               transformed.step_attachments = ResolvedList(entity.step_attachments)
        /\ \A i \in 1..Len(entity.text) :
               (entity.text[i].kind = "url" /\ Resolvable(entity.text[i].hash)) =>
                   transformed.text[i].hash = TargetOf(entity.text[i].hash)

\* C20: in a transformed text every attachment URL whose hash is mapped carries the
\* target attachment hash and the hash of the target workspace, and everything
\* else, URLs with an unmapped hash included, is as it was in the source text.
C20_UrlRewritten ==
    transformed.done =>
        /\ Len(transformed.text) = Len(entity.text)
        /\ \A i \in 1..Len(entity.text) :
               transformed.text[i] =
                   IF entity.text[i].kind = "url" /\ Resolvable(entity.text[i].hash)
                   THEN Url(TargetWorkspaceHash, TargetOf(entity.text[i].hash))
                   ELSE entity.text[i]
\* two e-mails are equal when letter case is ignored
SameEmail(e1, e2) == e1[1] = e2[1]

\* the target users whose e-mail is that of the source user u, letter case ignored
MatchesOf(u) == {t \in target_users : t.email # NoEmail /\ SameEmail(t.email, u.email)}

C22_CaseCarriesMappedAuthorAndSuite ==
    (ref_out.done /\ ~ref_out.raised /\ ref_entity.kind = "case") =>
        /\ Has(user_result.user_mapping, IntKey(SourceAuthor(ref_entity)))
              => ref_out.author_id = user_result.user_mapping[IntKey(SourceAuthor(ref_entity))]
        /\ Has(ref_maps.suite_mapping, IntKey(ref_entity.suite_id))
              => ref_out.suite_id = ref_maps.suite_mapping[IntKey(ref_entity.suite_id)]

\* C23: transforming a case, run or defect that references an unmapped dependency
\* never raises and never drops the entity: an unmapped author becomes the
\* fallback user id and any other unmapped reference is omitted.
C23_UnmappedReferenceDegrades ==
    ref_out.done =>
        LET a == SourceAuthor(ref_entity)
            noAuthor == a # 0 /\ ~Has(user_result.user_mapping, IntKey(a))
            noSuite == ref_entity.suite_id # 0
                          /\ ~Has(ref_maps.suite_mapping, IntKey(ref_entity.suite_id))
            noMilestone == ref_entity.milestone_id # 0
                          /\ ~Has(ref_maps.milestone_mapping, IntKey(ref_entity.milestone_id))
        IN (noAuthor \/ noSuite \/ noMilestone) =>
              /\ ~ref_out.raised
              /\ noAuthor => ref_out.author_id = default_user_id
              /\ noSuite => ref_out.suite_id = 0
              /\ noMilestone => ref_out.milestone_id = 0

\* the results that the requests built so far for run r hold, in order
RECURSIVE SentFor(_, _)
SentFor(r, k) ==
    IF k = 0 THEN << >>
    ELSE SentFor(r, k - 1) \o (IF requests[k].run = r THEN requests[k].results ELSE << >>)

\* every result of every run of the project is in a request
AllSubmitted == \A r \in RunIds : SentFor(r, Len(requests)) = results_to_create(source_results[r])

\* C24: no target run is completed before every result chunk for the runs of its
\* project has been submitted; a run created from a completed source run stays
\* open throughout result insertion.
C24_CompleteAfterResults ==
    /\ (completes # << >> \/ \E r \in RunIds : run_status[r] = "completed") => AllSubmitted
    /\ ~AllSubmitted => \A r \in RunIds : run_status[r] = "open"
    /\ \A r \in RunIds : run_status[r] = "completed" => r \in runs_to_complete

\* a run has been completed after two chunks of results went into it
C24_Witness ==
    \E r \in runs_to_complete :
        /\ run_status[r] = "completed"
        /\ Cardinality({k \in DOMAIN requests : requests[k].run = r}) >= 2

C25_SavedStoreHoldsCreated ==
    (log # << >> /\ log[Len(log)] = Save) =>
        \A ty \in EntityTypes : \A e \in target[ty] :
            e.phase = phase => KeyInStore(saved, ty, e)

\* the requests went for the offsets 0, limit, 2*limit, ...
OffsetsInSteps == \A i \in DOMAIN fetched : fetched[i].offset = (i - 1) * PageLimit

\* the list returned holds every entity served (that the filter of
\* extract_projects keeps) exactly once, in the order served
AllExtracted == extracted = kept(extractor, only_projects, [i \in 1..served |-> i])

C27_MissingFileLeavesStore ==
    /\ load_from_file(mappings, NoFile) = mappings
    /\ (cfg.resume /\ file = NoFile /\ pc # "start") =>
          /\ log[1] = Load
          /\ \A i \in DOMAIN log : log[i] # Unhandled
          /\ log = <<Load>> =>
                /\ pc = "projects"
                /\ exit_status = -1
                /\ mappings = NewMappings
                /\ \A f \in PerProjectFields \cup FlatFields : mappings[f] = EmptyDict

\* main was started with --resume where no mappings file exists and has gone on
\* to its first step
C27_Witness == cfg.resume /\ file = NoFile /\ pc = "projects" /\ log = <<Load>>

\* the first POST that the target would not answer with 429 or 5xx, within the
\* attempts that retry_with_backoff makes (0: there is none)
FirstSettled ==
    IF \E i \in DOMAIN bulk_answers : ~RetryableStatus(bulk_answers[i])
    THEN CHOOSE i \in DOMAIN bulk_answers :
            /\ ~RetryableStatus(bulk_answers[i])
            /\ \A j \in 1..(i - 1) : RetryableStatus(bulk_answers[j])
    ELSE 0

\* C28: bulk case creation through the raw API client treats transient failures
\* like the retry wrapper: a 429 or 5xx answer is retried, up to the retry limit,
\* before the cases are reported as not created.
C28_RawBulkRetriesTransient ==
    created_ids # "pending" =>
        /\ bulk_posts = IF FirstSettled = 0 THEN DefaultMaxRetries ELSE FirstSettled
        /\ created_ids = "ids" <=> (FirstSettled # 0 /\ bulk_answers[FirstSettled] = 200)

\* the entity types of the dependency graph: the steps of main (workspace-level
\* and per project), and the defects, which depend on the results
GraphTypes == StepNames \cup {"defects"}

\* whether a migrator was invoked for type ty (and project p, "-" for the
\* workspace-level types)
Invoked(ty, p) == \E i \in DOMAIN log : log[i] = Invoke(ty, p)

\* C30: a run that reaches completion has invoked a migrator for every entity type
\* of the dependency graph for every migrated project, Defects (after Results)
\* included.
C30_EveryEntityTypeInvoked ==
    (pc = "done" /\ loc.projects # << >>) =>
        \A i \in DOMAIN loc.projects : \A ty \in GraphTypes :
            \/ ty \in {WorkspaceSteps[j] : j \in DOMAIN WorkspaceSteps}
            \/ Invoked(ty, loc.projects[i])

\* the source runs that are completed (is_completed, with an end_time): the first
\* run of every project; the others are still open
SourceRunEnded(i) == i = 1

\* whether the body of migrate_results ran for project p: the migrator was invoked
\* and the call did not raise
ResultsBodyRan(p) ==
    /\ Invoked("results", p)
    /\ ~\E i \in DOMAIN log : log[i] = Raised("results", p)

\* the target runs that the running process asked the target to complete:
\* complete_run is called only by the body of migrate_results, for the runs that
\* migrate_runs recorded for the project
CompleteRunCalled(e) == e.phase = phase /\ SourceRunEnded(e.src) /\ ResultsBodyRan(e.p)

\* C31: in a run that no failure disturbed, every target run created from a
\* completed (or ended) source run has been completed in the target, by the
\* results step of its project, when the run ends.
C31_EndedRunsCompleted ==
    (pc = "done" /\ faults = 0) =>
        \A e \in target["runs"] :
            (e.phase = phase /\ SourceRunEnded(e.src)) =>
                /\ Invoked("results", e.p)
                /\ CompleteRunCalled(e)

\* the migrator invocations of the running process, in the order they were made
Invocations == SelectSeq(log, LAMBDA e : e[1] = "invoke")

\* the fixed step list of main: STEP 1, then the steps that follow it
FixedList == <<<<"projects", "-">>>> \o StepList(cfg, loc.projects)

\* every invocation is a step of the list and lies further down the list than the
\* invocation before it: list order, each step at most once per project
InFixedOrder ==
    LET list == FixedList
        made == [i \in DOMAIN Invocations |-> <<Invocations[i][2], Invocations[i][3]>>]
        position == [i \in DOMAIN made |->
                        IF \E k \in DOMAIN list : list[k] = made[i]
                        THEN CHOOSE k \in DOMAIN list : list[k] = made[i] ELSE 0]
    IN \A i \in DOMAIN made :
           /\ position[i] > 0
           /\ i > 1 => position[i - 1] < position[i]

\* the process ended in one of the handlers at the end of main: an exception or an
\* interrupt, then the save
EndedInHandler ==
    /\ Len(log) >= 2
    /\ log[Len(log)] = Save
    /\ log[Len(log) - 1][1] \in {"raised", "interrupt"}

\* every step of every project to migrate was invoked, and with a project to
\* migrate the workspace-level steps that no configuration switches off
AllStepsRun ==
    /\ Invoked("projects", "-")
    /\ \A i \in DOMAIN loc.projects : \A k \in DOMAIN ProjectSteps :
           Invoked(ProjectSteps[k], loc.projects[i])
    /\ loc.projects # << >> =>
           \A ty \in {"custom_fields", "shared_parameters", "attachments"} : Invoked(ty, "-")

EndedAsStated ==
    /\ exit_status \in {-1, 0, 1}
    /\ exit_status = 0 <=> pc = "done"
    /\ exit_status = 1 <=> pc = "exit"
    /\ pc = "done" => AllStepsRun
    /\ pc = "exit" => EndedInHandler

C33_NoCreateCallForExistingCode ==
    project_call.held =>
        /\ project_call.create = "none"
        /\ Has(projects_store, project_call.code)

\* C33: when the probe finds the code in the target, create_project issues no
\* create call and maps the source code to the existing code; when the probe
\* fails for a code the target holds, the create call is issued and creates
\* nothing (the target rejects it, or it fails), and the code is mapped if the
\* second probe finds the project.  A project is created only for a code the
\* target does not hold, in whatever run.
C33_NoCreateCallWhenProbeFinds ==
    /\ project_call.probe = "found" =>
           /\ project_call.create = "none"
           /\ project_call.returned = "dict"
           /\ Has(projects_store, project_call.code)
           /\ projects_store[project_call.code] = project_call.code
    /\ (project_call.held /\ project_call.create # "none") =>
           /\ project_call.probe = "error"
           /\ project_call.create \in {"already_exists", "error"}
           /\ project_call.returned = "dict" <=> project_call.second_probe = "found"
           /\ project_call.second_probe = "found" =>
                  /\ Has(projects_store, project_call.code)
                  /\ projects_store[project_call.code] = project_call.code
    /\ project_call.create = "created" => ~project_call.held

\* a later run finds the project that an earlier run created, and creates nothing
C33_Witness ==
    /\ project_run = MaxProjectRuns
    /\ project_call.code = ProjectSeq[NumProjects]
    /\ target_projects[project_call.code] = "created"
    /\ project_call.held
    /\ project_call.probe = "found"
    /\ project_call.create = "none"

\* C34: migrate_custom_fields issues no create call for a field whose trimmed,
\* lower-cased title equals that of a field in the target (one that was there
\* before or one created earlier in the invocation), and maps it to that field
\* instead.
C34_NoCreateForExistingTitle ==
    \A i \in DOMAIN field_creates : field_creates[i].same = {}

\* the hash of each upload differs from that of every other one
UploadedOnce ==
    \A i, j \in DOMAIN uploads : uploads[i].hash = uploads[j].hash => i = j

RewriteUses(tw) ==
    rewrite.kind # "none" =>
        rewrite.out = replace_attachment_hashes_in_text(
                          rewrite.text,
                          IF rewrite.kind = "case" THEN normalized_mapping(rewrite.map)
                          ELSE rewrite.map,
                          tw)

C36_WorkspaceHashSetOnce ==
    /\ [](workspace_hash = first_url_hash /\ RewriteUses(rewrite.first))
    /\ [][workspace_hash # 0 => workspace_hash' = workspace_hash]_vars

\* a second upload carried another hash, and an URL of a mapped attachment was then
\* rewritten with the first one
C36_Witness ==
    /\ upload_count >= 2
    /\ workspace_hash = TargetWorkspaceHash
    /\ rewrite.kind = "result"
    /\ rewrite.first = TargetWorkspaceHash
    /\ \E i \in DOMAIN rewrite.out :
          /\ rewrite.out[i].kind = "url"
          /\ rewrite.out[i].ws = TargetWorkspaceHash

\* C37: the completion set recorded for a project holds exactly the target runs
\* that this project's invocation of migrate_runs created from completed or ended
\* source runs: no run created for another project, none from an invocation that
\* raised.
C37_CompletionSetIsOwn ==
    \A p \in DOMAIN mappings_runs_to_complete :
        mappings_runs_to_complete[p] = ended_created[p]

\* the same when no invocation has raised
C37_CompletionSetIsOwnIfNoneRaised ==
    runs_raised = {} => C37_CompletionSetIsOwn

\* the run has logged that migrate_users raised
UsersRaised == \E i \in DOMAIN log : log[i] = Raised("users", "-")

\* every source user that has an id -> users.default
DefaultUsers == [k \in {IntKey(i) : i \in Ids} |-> default_user_id]

\* the step of main in which migrate_users raises, the process not being killed
\* while it writes the file
UsersFallbackStep ==
    /\ pc = "users"
    /\ ~UsersRaised
    /\ UsersRaised'
    /\ pc' # "killed"

\* no group migration, the store saved, custom fields next
FallbackGoesOn ==
    /\ ~\E i \in DOMAIN log' : log'[i] = Invoke("groups", "-")
    /\ log'[Len(log')] = Save
    /\ file' = save_to_file(mappings')
    /\ pc' = "custom_fields"

\* C38 as stated: if migrate_users raises, main maps every source user that has an
\* id to users.default, stores that as the users map, does not attempt group
\* migration, saves the store and continues with the custom-fields step.
C38_FallbackMapsEveryUser ==
    [][UsersFallbackStep =>
          /\ loc'.user_mapping = DefaultUsers
          /\ mappings'.users = DefaultUsers
          /\ FallbackGoesOn]_vars

\* C38, amended: if migrate_users raises, main extracts the source users again;
\* when that succeeds every source user that has an id is mapped to users.default
\* and that is stored as the users map, when it raises as well the users map stays
\* as it was and the user mapping of the later steps is empty; either way group
\* migration is not attempted, the store is saved and the custom-fields step is
\* next.
C38_FallbackMapsEveryUserIfExtracted ==
    /\ [][UsersFallbackStep =>
             /\ \/ /\ loc'.user_mapping = DefaultUsers
                   /\ mappings'.users = DefaultUsers
                \/ /\ loc'.user_mapping = EmptyDict
                   /\ mappings'.users = mappings.users
             /\ FallbackGoesOn]_vars
    /\ [](UsersRaised => ~Invoked("groups", "-"))

\* the fallback map was stored and saved, and the run went on past custom fields
C38_Witness ==
    /\ UsersRaised
    /\ mappings.users = DefaultUsers
    /\ saved.users = DefaultUsers
    /\ Invoked("custom_fields", "-")
    /\ ~Invoked("groups", "-")

\* the create call that gave source suite s its mapped id
CreateOf(s) ==
    CHOOSE i \in DOMAIN suite_creates :
        suite_creates[i].suite = s /\ suite_creates[i].id = suites_mapped[s]

\* d lies below s in the source forest
Descendant(d, s) == \E n \in 1..NumSuites : Up(suite_parent, d, n) = s

\* C39: after migrate_suites every mapped suite with a non-null source parent has a
\* mapped parent, was created after that parent and with parent_id equal to the
\* parent's target id; and no descendant of a suite whose creation failed is
\* created.
C39_SuitesFollowParents ==
    suites_done =>
        /\ suites_store = suites_mapped
        /\ \A s \in DOMAIN suites_mapped :
              /\ \E i \in DOMAIN suite_creates :
                    suite_creates[i].suite = s /\ suite_creates[i].id = suites_mapped[s]
              /\ suite_parent[s] # 0 =>
                    /\ suite_parent[s] \in DOMAIN suites_mapped
                    /\ CreateOf(suite_parent[s]) < CreateOf(s)
                    /\ suite_creates[CreateOf(s)].parent_id = suites_mapped[suite_parent[s]]
        /\ \A i \in DOMAIN suite_creates :
              suite_creates[i].answer # "created" =>
                  \A j \in DOMAIN suite_creates :
                      ~Descendant(suite_creates[j].suite, suite_creates[i].suite)

\* a suite was created under its created parent, and the creation of another
\* suite that has a descendant raised
C39_Witness ==
    /\ suites_done
    /\ \E s \in DOMAIN suites_mapped :
          /\ suite_parent[s] # 0
          /\ suite_parent[s] \in DOMAIN suites_mapped
    /\ \E i \in DOMAIN suite_creates : \E d \in SuiteIds :
          /\ suite_creates[i].answer = "raises"
          /\ Descendant(d, suite_creates[i].suite)

====
